---- MODULE Spec2Model ----
(***************************************************************************)
(* A model of the weather-station programs awos.py (dual GUI),             *)
(* multi_awos.py (multi display) and awos_assit_code/awos_new.py (legacy): *)
(* the sensor readers, the derived metrics (daily rainfall accumulator,    *)
(* AQI, categorical bands), the acquisition loop and the display refresh.  *)
(*                                                                         *)
(* Values.  A Python value that may be None is a tuple: <<>> is None and   *)
(* <<v>> is the value v.  Physical values keep the resolution of the       *)
(* registers they come from: temperature, humidity, pressure, wind speed   *)
(* and rainfall are integers in tenths (register / 10.0), the UV index and *)
(* PM2.5 are integers in hundredths, and an AQI is the exact rational      *)
(* <<numerator, denominator>> of the code's floating-point expression.     *)
(***************************************************************************)
EXTENDS Integers, Sequences, FiniteSets, TLC

VARIABLES
    \* ---- wall clock
    today,                 \* calendar day, counted from 1 January (day 0)
    clock_steps,           \* number of times the clock has been advanced
    captured_day,          \* per snapshot the writer awaits or took last: the day of its timestamp
    \* ---- rainfall accumulator of awos.py (attributes of WeatherStationSystem)
    last_rain_reset_day,   \* None while the attribute does not exist
    daily_rain_total,      \* None while the attribute does not exist
    last_rain_value,       \* tenths of a millimetre
    rain_file,             \* rows of rainfall_data/daily_rainfall_totals.csv
    rain_ret,              \* what the latest process_rainfall call returned
    \* ---- observation of the process_rainfall calls
    rain_arg,              \* argument of the latest call
    rain_calls,            \* number of calls so far
    prev_date,             \* calendar day of the latest call with a reading
    store_result,          \* "none", "ok" or "failed": the latest call's file write
    ex_pos,                \* how far today's readings follow ExampleRaw
    \* ---- one call of a derived-metric function
    fn_program,            \* "awos", "multi" or "new": whose function is called
    fn_name,               \* "aqi", "uv" or "humidity"
    fn_arg,                \* the argument: PM2.5, UV index or humidity, or None
    fn_called,             \* whether the call has been made
    fn_value,              \* calculate_aqi's result (fn_name = "aqi")
    fn_state,              \* the <<label, colour>> the banding function returned
    \* ---- one call of read_wind_direction
    wd_program,            \* whose reader is called
    wd_res,                \* what read_holding_registers does
    wd_called,             \* whether the call has been made
    wd_data,               \* the reader's return value: Some(dict) or None
    \* ---- the acquisition worker (sensor_reader_loop) and what it shares
    script,                \* "awos", "multi" or "new": which program runs
    pc,                    \* "top", "read", "publish" or "enqueue"
    reader_idx,            \* position in the list of readers
    cycle,                 \* number of snapshots begun
    heap,                  \* the live dict objects, by identity
    origin,                \* per object and key: the cycle that wrote the key
    current_data,          \* identity of the worker's private dict, or None
    sensor_data,           \* identity of the published dict (self.sensor_data)
    data_queue,            \* identities of the queued dicts, oldest first
    since_csv,             \* time.time() - last_csv_time, up to csv_interval
    socket_open,           \* whether the bus client is connected
    sensors_connected,     \* multi_awos.py's flag
    cycle_outcome,         \* this cycle's reader loop: sensor -> "ok" / "failed"
    faults,                \* number of failed reads so far
    connect_called,        \* whether the iteration begun last called connect()
    \* ---- the display (awos.py), run by the GUI event loop
    current_gui,           \* 1 or 2: the display that is shown
    toggle_timer,          \* whether _toggle_timer holds a pending callback
    update_timer,          \* whether update_display is scheduled to run again
    display_error,         \* whether the last update_display logged an error
    \* ---- rainfall reset logic of multi_awos.py and awos_new.py
    no_rain_counter,       \* consecutive calls whose reading stayed within the threshold
    \* ---- the operator's keys (awos.py)
    last_key,              \* "Tab" or "space": the key pressed last, "none" after an automatic toggle
    gui_before,            \* the display shown when that key was pressed
    timer_before,          \* whether a toggle was pending when that key was pressed
    armed_interval,        \* milliseconds the pending toggle timer was armed with, 0 if none
    \* ---- the state labels on screen (awos.py, multi_awos.py)
    state_labels,          \* text of the humidity, UV and AQI state labels
    refreshed,             \* whether update_display has run since the last snapshot was published
    \* ---- the display manager of multi_awos.py (GUIManager)
    wall_seconds,          \* the wall clock: seconds since midnight of the day of the start
    time_steps,            \* number of times that clock has advanced
    toggle_time_start,     \* time.time() when GUIManager was constructed
    current_display,       \* "none" (None), "night", "day1" or "day2"
    apps,                  \* display id -> "shown", "withdrawn" or "destroyed" window
    checked,               \* whether check_display_time has run since the clock advanced
    \* ---- start and shutdown (awos.py, multi_awos.py)
    running,               \* self.running, the flag both workers test
    main_pc,               \* the main thread: "construct", "mainloop", "shutdown", "done" or "crashed"
    shutdown_pos,          \* number of steps of shutdown that have been taken
    shutdown_trace,        \* what shutdown has done so far: <<step, bus connected at that time>>
    bus_calls,             \* the <<thread, call>> pairs of the bus calls made so far
    \* ---- observation of the absent readings given to process_rainfall
    absent_date,           \* calendar day of the latest call without a reading since the latest reading, or None
    \* ---- the Tk timers and canvases of awos.py's display rotation
    after_pending,         \* ids of the root.after(..., toggle_gui) callbacks that are pending
    timer_id,              \* self._toggle_timer: the id root.after returned, or None
    packed,                \* the canvases that are packed: a subset of {1, 2}
    \* ---- one pass of update_display, widget by widget (multi_awos.py)
    pass_idx,              \* position in the pass's list of widgets, 0 between passes
    pass_log,              \* the widgets set in this pass: <<widget, identity of the dict read>>
    \* ---- the persistence worker: csv_writer_loop
    csv_dir,               \* the csv directory: file name -> [header, rows]
    last_values,           \* awos.py: header key -> the value kept for the next row
    last_update_age,       \* awos.py: header key -> current_time - last_update_times[key]
    since_write,           \* awos.py: current_time - last_write_time
    writer_pc,             \* "run" while the writer is in its loop, "exited" after it
    consumed,              \* the snapshots dequeued so far, in order
    row_source,            \* the snapshot dequeued last, if any
    write_result,          \* outcome of the writer's last step: "none", "ok" or the error
    writer_wait,           \* seconds the writer waited because of that outcome
    writer_logged,         \* whether the writer's last step logged an error
    io_faults,             \* number of failed file operations so far
    carried                \* awos.py: header key -> value of the latest dequeued snapshot with that key

clockVars == <<today, clock_steps, captured_day>>

rainVars == <<last_rain_reset_day, daily_rain_total, last_rain_value,
              rain_file, rain_ret, rain_arg, rain_calls, prev_date,
              store_result, ex_pos, absent_date>>

fnVars == <<fn_program, fn_name, fn_arg, fn_called, fn_value, fn_state>>

wdVars == <<wd_program, wd_res, wd_called, wd_data>>

loopVars == <<script, pc, reader_idx, cycle, heap, origin, current_data,
              sensor_data, data_queue, since_csv, socket_open,
              sensors_connected, cycle_outcome, faults, connect_called>>

stationVars == <<current_gui, toggle_timer, update_timer, display_error,
                 last_key, gui_before, timer_before, armed_interval, after_pending,
                 timer_id, packed>>

writerVars == <<csv_dir, last_values, last_update_age, since_write, writer_pc,
                consumed, row_source, write_result, writer_wait, writer_logged,
                io_faults, carried>>

resetVars == <<no_rain_counter>>

labelVars == <<state_labels, refreshed, pass_idx, pass_log>>

managerVars == <<wall_seconds, time_steps, toggle_time_start, current_display, apps, checked>>

lifeVars == <<running, main_pc, shutdown_pos, shutdown_trace, bus_calls>>

restVars == <<resetVars, labelVars, managerVars, lifeVars>>

vars == <<clockVars, rainVars, fnVars, wdVars, loopVars, stationVars, writerVars, restVars>>

----------------------------------------------------------------------------
\* Python values

None == <<>>

Some(v) == <<v>>

Val(x) == x[1]

Min(a, b) == IF a <= b THEN a ELSE b

Abs(a) == IF a >= 0 THEN a ELSE -a

\* Exact rationals <<numerator, denominator>>, denominator > 0, compared
\* through integer part and remainder.
Rat(n, d) == <<n, d>>

RatFloor(a) == a[1] \div a[2]

RatRem(a) == a[1] % a[2]

RatLess(a, b) ==
    \/ RatFloor(a) < RatFloor(b)
    \/ RatFloor(a) = RatFloor(b) /\ RatRem(a) * b[2] < RatRem(b) * a[2]

RatLeq(a, b) == ~RatLess(b, a)

\* awos.py __init__: milliseconds each display stays shown.
gui1_toggle_interval == 10000

gui2_toggle_interval == 5000

\* The three programs of the repository.
Programs == {"awos", "multi", "new"}

----------------------------------------------------------------------------
\* Bounds of the model

\* Number of times the clock is advanced (day 0 is 1 January).
MaxClockSteps == 3

\* Number of process_rainfall calls explored.
MaxRainCalls == 5

\* Days that may pass between two steps of the program: one day, or a month
\* during which no rainfall reading is processed.
DayJumps == {1, 31}

\* Raw gauge readings (register / 10.0, kept in tenths of a millimetre).
RainInputs == {90, 95, 100, 103}

\* Largest PM2.5 argument, in hundredths of a microgram per cubic metre.
MaxPm == 50100

\* Largest UV index argument, in hundredths.
MaxUv == 1100

\* Largest humidity argument, in tenths of a percent.
MaxHumidity == 1000

\* Largest value of wind-direction register 0 (tenths of a degree).
MaxWindReg == 3700

\* Register 2 is register 0 plus one of these; register 1 is one of IgnoredRegs.
WindDeltas == {0, 1, 10}

IgnoredRegs == {0, 1800}

\* Number of snapshots the acquisition worker begins.
MaxCycles == 3

\* Number of reads that fail (bus error, bus exception, air-quality file
\* absent or empty) in one run of the worker.
MaxFaults == 2

\* Seconds past csv_interval up to which the time since the last push is counted.
MaxLate == 1

\* Number of file operations of the writer that fail in one run.
MaxIoFaults == 1

\* Number of rows up to which awos.py's one file is followed.
MaxRows == 1

\* Number of midnights that pass while the persistence worker is followed.
MaxMidnights == 1

\* The day the persistence worker's run starts on, and the days of the dated
\* files an earlier run has left in the csv directory.
StartDay == 8
OldDays == {0, 1}

----------------------------------------------------------------------------
\* Calendar (datetime.now()): a non-leap year

MonthDays == <<31, 28, 31, 30, 31, 30, 31, 31, 30, 31, 30, 31>>

RECURSIVE MonthOf(_, _)
MonthOf(n, m) == IF m = 12 \/ n < MonthDays[m] THEN m ELSE MonthOf(n - MonthDays[m], m + 1)

RECURSIVE DayInMonth(_, _)
DayInMonth(n, m) == IF m = 12 \/ n < MonthDays[m] THEN n + 1 ELSE DayInMonth(n - MonthDays[m], m + 1)

\* datetime.now().day
DayOfMonth(n) == DayInMonth(n, 1)

\* datetime.now().strftime('%Y-%m-%d'), as <<month, day>> of the modelled year
DateOf(n) == <<MonthOf(n, 1), DayInMonth(n, 1)>>

----------------------------------------------------------------------------
\* Daily rainfall accumulator (awos.py)

\* A variant that dates the row by the day before the write.
store_daily_rainfall_day_before(file, total, now, io_ok) ==
    IF io_ok THEN Append(file, <<DateOf(now - 1), total>>) ELSE file

\* store_daily_rainfall: append one (date, total) row; an I/O error is logged
\* and the row is lost.
store_daily_rainfall(file, total, now, io_ok) ==
    IF io_ok THEN Append(file, <<DateOf(now), total>>) ELSE file

\* The day test of process_rainfall: no reset day stored yet, or now.day differs.
day_changed(reset_day, now) ==
    reset_day = None \/ DayOfMonth(now) /= Val(reset_day)

\* The increment step of process_rainfall: a non-negative increment is added
\* and the baseline advances; a negative one (sensor reset) only re-baselines.
accumulate_always(total, last, cur) == [total |-> total + (cur - last), last |-> cur]

\* A variant that keeps the old baseline when the gauge restarts.
accumulate_keep_baseline(total, last, cur) ==
    LET rain_increment == cur - last
    IN IF rain_increment >= 0
       THEN [total |-> total + rain_increment, last |-> cur]
       ELSE [total |-> total, last |-> last]

accumulate(total, last, cur) ==
    LET rain_increment == cur - last
    IN IF rain_increment >= 0
       THEN [total |-> total + rain_increment, last |-> cur]
       ELSE [total |-> total, last |-> cur]

\* process_rainfall on the state s with the reading current_rain at day now.
process_rainfall(s, current_rain, now, io_ok) ==
    IF current_rain = None
    THEN [s EXCEPT !.ret = None, !.store = "none"]
    ELSE LET cur == Val(current_rain)
             reset == day_changed(s.reset_day, now)
             flush == reset /\ s.total /= None
             s1 == IF reset
                   THEN [s EXCEPT
                           !.file = IF flush
                                    THEN store_daily_rainfall(s.file, Val(s.total), now, io_ok)
                                    ELSE s.file,
                           !.store = IF flush THEN (IF io_ok THEN "ok" ELSE "failed")
                                     ELSE "none",
                           !.reset_day = Some(DayOfMonth(now)),
                           !.total = Some(0),
                           !.last = cur]
                   ELSE [s EXCEPT !.store = "none"]
             a == accumulate(Val(s1.total), s1.last, cur)
         IN [s1 EXCEPT !.total = Some(a.total), !.last = a.last, !.ret = Some(a.total)]

----------------------------------------------------------------------------
\* The bus and the sensor readers

\* What modbus_client.read_holding_registers does: it returns the registers,
\* returns an error response (isError()), or raises.
BusOk(regs) == [kind |-> "ok", registers |-> regs]

BusError == [kind |-> "error", registers |-> <<>>]

BusRaise == [kind |-> "raise", registers |-> <<>>]

\* Python's round(n / d) for d > 0: to the nearest integer, ties to even.
RoundHalfEven(n, d) ==
    LET q == n \div d
        r == n % d
    IN IF 2 * r < d THEN q
       ELSE IF 2 * r > d THEN q + 1
       ELSE IF q % 2 = 0 THEN q ELSE q + 1

directions8 == <<"N", "NE", "E", "SE", "S", "SW", "W", "NW">>

directions16 == <<"N", "NNE", "NE", "ENE", "E", "ESE", "SE", "SSE",
                  "S", "SSW", "SW", "WSW", "W", "WNW", "NW", "NNW">>

\* _degrees_to_cardinal(degrees): awos.py uses the 8-point table in 45 degree
\* steps, multi_awos.py and awos_new.py the 16-point table in 22.5 degree steps.
degrees_to_cardinal(program, degrees) ==
    IF program = "awos"
    THEN directions8[(RoundHalfEven(degrees, 45) % 8) + 1]
    ELSE IF ~(0 <= degrees /\ degrees <= 360) THEN "Unknown"
    ELSE directions16[(RoundHalfEven(2 * degrees, 45) % 16) + 1]

\* read_environment_sensor: three registers, each / 10.0 (kept in tenths).
read_environment_sensor(program, res) ==
    IF res.kind = "ok"
    THEN Some([temperature |-> Some(res.registers[1]),
               humidity |-> Some(res.registers[2]),
               pressure |-> Some(res.registers[3])])
    ELSE IF program = "awos"
    THEN Some([temperature |-> Some(0), humidity |-> Some(0), pressure |-> Some(0)])
    ELSE None

\* read_uv_sensor: one register / 100.0 (kept in hundredths); 0.0 on failure.
read_uv_sensor(program, res) ==
    IF res.kind = "ok" THEN Some([uv_index |-> Some(res.registers[1])])
    ELSE Some([uv_index |-> Some(0)])

\* read_wind_speed: one register / 10.0 (kept in tenths); 0.0 on failure.
read_wind_speed(program, res) ==
    IF res.kind = "ok" THEN Some([wind_speed |-> Some(res.registers[1])])
    ELSE Some([wind_speed |-> Some(0)])

\* A variant that clamps an out-of-range direction to 360.
read_wind_direction_clamped(program, res) ==
    IF res.kind /= "ok" THEN None
    ELSE LET wind_dir_degrees ==
                 Min(RoundHalfEven(res.registers[1] + res.registers[3], 20), 360)
         IN Some([wind_dir_degrees |-> Some(wind_dir_degrees),
                  wind_dir_cardinal |->
                      Some(degrees_to_cardinal(program, wind_dir_degrees))])

\* A variant that averages all three registers.
read_wind_direction_all_registers(program, res) ==
    IF res.kind /= "ok" THEN None
    ELSE LET wind_dir_degrees ==
                 RoundHalfEven(res.registers[1] + res.registers[2] + res.registers[3], 30)
         IN IF 0 <= wind_dir_degrees /\ wind_dir_degrees <= 360
            THEN Some([wind_dir_degrees |-> Some(wind_dir_degrees),
                       wind_dir_cardinal |->
                           Some(degrees_to_cardinal(program, wind_dir_degrees))])
            ELSE None

\* read_wind_direction: round(((reg0 + reg2) / 2.0) / 10.0), kept if in [0, 360].
read_wind_direction(program, res) ==
    IF res.kind /= "ok" THEN None
    ELSE LET wind_dir_degrees ==
                 RoundHalfEven(res.registers[1] + res.registers[3], 20)
         IN IF 0 <= wind_dir_degrees /\ wind_dir_degrees <= 360
            THEN Some([wind_dir_degrees |-> Some(wind_dir_degrees),
                       wind_dir_cardinal |->
                           Some(degrees_to_cardinal(program, wind_dir_degrees))])
            ELSE None

\* read_rainfall: one register / 10.0 (kept in tenths); None on failure.
read_rainfall(program, res) ==
    IF res.kind = "ok" THEN Some([rainfall |-> Some(res.registers[1])])
    ELSE None

\* The air-quality reference file: absent, empty (pandas raises), or holding
\* rows; row is the one nearest in time to now.
AqiFileAbsent == [state |-> "absent", row |-> <<>>]

AqiFileEmpty == [state |-> "empty", row |-> <<>>]

AqiFileRow(r) == [state |-> "ok", row |-> r]

\* read_aqi_sensor: the nearest row's columns; when the file is absent or
\* unreadable awos.py returns {'pm2_5': 0.0}, the other programs None.
read_aqi_sensor(program, file) ==
    IF file.state = "ok" THEN Some(file.row)
    ELSE IF program = "awos" THEN Some([pm2_5 |-> Some(0)])
    ELSE None

\* One call of read_wind_direction.
CallReadWindDirection ==
    /\ ~wd_called
    /\ wd_called' = TRUE
    /\ wd_data' = read_wind_direction(wd_program, wd_res)
    /\ UNCHANGED <<wd_program, wd_res>>
    /\ UNCHANGED <<clockVars, rainVars, fnVars, loopVars, stationVars, writerVars, restVars>>

WindResults ==
    {BusError, BusRaise} \cup
    {BusOk(<<r0, r1, r0 + d>>) : r0 \in 0 .. MaxWindReg, r1 \in IgnoredRegs, d \in WindDeltas}

WindNext == CallReadWindDirection

SpecWindInit ==
    /\ wd_program \in Programs
    /\ wd_res \in WindResults
    /\ wd_called = FALSE
    /\ wd_data = None
    /\ fn_program = "awos"
    /\ fn_name = "aqi"
    /\ fn_arg = None
    /\ fn_called = TRUE
    /\ fn_value = None
    /\ fn_state = <<"", "">>
    /\ today = 0
    /\ clock_steps = 0
    /\ last_rain_reset_day = None
    /\ daily_rain_total = None
    /\ last_rain_value = 0
    /\ rain_file = <<>>
    /\ rain_ret = None
    /\ rain_arg = None
    /\ rain_calls = 0
    /\ prev_date = None
    /\ store_result = "none"
    /\ ex_pos = 0
    /\ script = "awos"
    /\ pc = "top"
    /\ reader_idx = 1
    /\ cycle = 0
    /\ heap = <<>>
    /\ origin = <<>>
    /\ current_data = None
    /\ sensor_data = 0
    /\ data_queue = <<>>
    /\ since_csv = 0
    /\ socket_open = FALSE
    /\ sensors_connected = FALSE
    /\ cycle_outcome = <<>>
    /\ faults = 0
    /\ connect_called = FALSE
    /\ csv_dir = <<>>
    /\ last_values = <<>>
    /\ last_update_age = <<>>
    /\ since_write = 0
    /\ writer_pc = "run"
    /\ consumed = <<>>
    /\ row_source = None
    /\ write_result = "none"
    /\ writer_wait = 0
    /\ writer_logged = FALSE
    /\ io_faults = 0
    /\ captured_day = <<>>
    /\ pass_idx = 0
    /\ pass_log = <<>>
    /\ after_pending = {1}
    /\ timer_id = Some(1)
    /\ packed = {2}
    /\ absent_date = None
    /\ running = FALSE
    /\ main_pc = "construct"
    /\ shutdown_pos = 0
    /\ shutdown_trace = <<>>
    /\ bus_calls = {}
    /\ carried = <<>>
    /\ wall_seconds = 0
    /\ time_steps = 0
    /\ toggle_time_start = 0
    /\ current_display = "none"
    /\ apps = <<>>
    /\ checked = FALSE
    /\ state_labels = <<>>
    /\ refreshed = FALSE
    /\ last_key = "none"
    /\ gui_before = 1
    /\ timer_before = FALSE
    /\ armed_interval = gui2_toggle_interval
    /\ no_rain_counter = 0
    /\ current_gui = 2
    /\ toggle_timer = TRUE
    /\ update_timer = FALSE
    /\ display_error = TRUE

\* The wind-direction reader called once, on any register contents.
SpecWind == SpecWindInit /\ [][WindNext]_vars

----------------------------------------------------------------------------
\* Claims about the wind-direction reader (checked under SpecWind)

C10_Table == <<"N", "NNE", "NE", "ENE", "E", "ESE", "SE", "SSE",
               "S", "SSW", "SW", "WSW", "W", "WNW", "NW", "NNW">>

\* round(d / 22.5) mod 16; d / 22.5 is never halfway for an integer d
C10_Index(d) == ((4 * d + 45) \div 90) % 16

\* C10: the cardinal direction stored with an accepted wind-direction reading
\* of d degrees is the nearest of the 16 compass points,
\* table[round(d / 22.5) mod 16].
C10_Cardinal16 ==
    (wd_called /\ wd_data /= None) =>
        LET d == Val(Val(wd_data).wind_dir_degrees)
        IN Val(Val(wd_data).wind_dir_cardinal) = C10_Table[C10_Index(d) + 1]

\* The sum of registers 0 and 2 of the response: 20 times the averaged value
\* in degrees.
WindSum == wd_res.registers[1] + wd_res.registers[3]

WindAnswered == wd_called /\ wd_res.kind = "ok"

CompassNames ==
    {directions8[i] : i \in DOMAIN directions8} \cup
    {directions16[i] : i \in DOMAIN directions16}

\* C11: when the averaged and rounded value lies outside [0, 360] the reader
\* returns None; a returned wind_dir_degrees is the rounded value itself
\* (neither clamped nor wrapped), an integer in [0, 360], and comes with a
\* cardinal label.
C11_OutOfRangeIsNoReading ==
    WindAnswered =>
        LET d == RoundHalfEven(WindSum, 20)
        IN /\ ~(0 <= d /\ d <= 360) => wd_data = None
           /\ wd_data /= None =>
                  /\ DOMAIN Val(wd_data) = {"wind_dir_degrees", "wind_dir_cardinal"}
                  /\ Val(wd_data).wind_dir_degrees = Some(d)
                  /\ d \in 0 .. 360
                  /\ Val(Val(wd_data).wind_dir_cardinal) \in CompassNames

\* A response averaging to more than 360 degrees was answered with None.
C11_Witness == WindAnswered /\ WindSum > 7210 /\ wd_data = None

\* C12: the direction is the integer nearest to (register 0 + register 2) / 20,
\* an exact half going to the even neighbour, and the result is the same
\* whatever register 1 holds.
C12_RegistersZeroAndTwo ==
    WindAnswered =>
        /\ \A r1 \in IgnoredRegs :
               wd_data = read_wind_direction(wd_program,
                             BusOk(<<wd_res.registers[1], r1, wd_res.registers[3]>>))
        /\ wd_data /= None =>
               LET d == Val(Val(wd_data).wind_dir_degrees)
               IN /\ 20 * d - WindSum \in -10 .. 10
                  /\ (20 * d - WindSum \in {-10, 10}) => d % 2 = 0

\* An exact half (12.5 degrees) read with a non-zero register 1.
C12_Witness ==
    /\ WindAnswered
    /\ WindSum = 250
    /\ wd_res.registers[2] = 1800
    /\ wd_data /= None
    /\ Val(wd_data).wind_dir_degrees = Some(12)

----------------------------------------------------------------------------
\* The acquisition worker: sensor_reader_loop

\* The (sensor_name, reader) list, in the order the loop walks it.
Sensors == <<"environment", "uv", "aqi", "wind_speed", "wind_direction", "rainfall">>

\* reader(): the bus readers take the bus's response, read_aqi_sensor the file.
\* Every reader catches Exception itself, so a call returns a dict or None.
call_reader(program, sensor_name, res, file) ==
    CASE sensor_name = "environment" -> read_environment_sensor(program, res)
      [] sensor_name = "uv" -> read_uv_sensor(program, res)
      [] sensor_name = "aqi" -> read_aqi_sensor(program, file)
      [] sensor_name = "wind_speed" -> read_wind_speed(program, res)
      [] sensor_name = "wind_direction" -> read_wind_direction(program, res)
      [] sensor_name = "rainfall" -> read_rainfall(program, res)

\* Register contents a sensor answers with when its read succeeds.
SampleRegisters(sensor_name) ==
    CASE sensor_name = "environment" -> <<215, 480, 10132>>
      [] sensor_name = "uv" -> <<350>>
      [] sensor_name = "wind_speed" -> <<42>>
      [] sensor_name = "wind_direction" -> <<1800, 0, 1810>>
      [] sensor_name = "rainfall" -> <<103>>
      [] OTHER -> <<>>

BusResults(sensor_name) == {BusOk(SampleRegisters(sensor_name)), BusError, BusRaise}

\* The row of the air-quality file nearest to now (PM2.5 in hundredths).
SampleAqiRow ==
    [co2 |-> Some(41200), pm2_5 |-> Some(3540), pm10 |-> Some(5000),
     carbon_monoxide |-> Some(30000), nitrogen_dioxide |-> Some(2000),
     sulphur_dioxide |-> Some(1000), ozone |-> Some(6000)]

AqiFiles == {AqiFileAbsent, AqiFileEmpty, AqiFileRow(SampleAqiRow)}

\* csv_interval, in seconds: read from weather_station.ini, 30 when the file
\* does not set it; a station configured with 1 queues a snapshot every cycle
\* that follows a sleep.
csv_interval == 1

\* time.time() - last_csv_time after sleeping for secs; the loop only compares
\* it with csv_interval, so it is kept up to MaxLate seconds past that value.
Elapse(since, secs) == Min(since + secs, csv_interval + MaxLate)

\* The dict sensor_data is bound to by init_data_structures.
InitialSensorData ==
    [k \in {"temperature", "humidity", "pressure", "uv_index", "wind_speed",
            "wind_direction", "rainfall", "aqi", "timestamp"} |-> None]

\* The placeholder values multi_awos.py publishes while no sensor is connected.
Placeholders ==
    [k \in {"temperature", "humidity", "pressure", "uv_index", "wind_speed",
            "wind_dir_degrees", "wind_dir_cardinal", "rainfall", "pm2_5"} |-> None]

\* dict.update: d with the keys of e set to e's values.
DictUpdate(d, e) ==
    [k \in DOMAIN d \cup DOMAIN e |-> IF k \in DOMAIN e THEN e[k] ELSE d[k]]

\* Who wrote what: the keys of e are stamped with cycle c.
Stamp(o, e, c) ==
    [k \in DOMAIN o \cup DOMAIN e |-> IF k \in DOMAIN e THEN c ELSE o[k]]

Range(q) == {q[i] : i \in DOMAIN q}

\* The objects still referenced: garbage collection drops the others.
Live(h, refs) == [i \in DOMAIN h \cap refs |-> h[i]]

\* The snapshots whose day of capture is still of interest: those in the queue
\* of a writer that names its file by date, and the one that writer took last.
\* (awos.py writes one file and stamps its rows itself.)
Awaited(prog, q, taken) ==
    IF prog = "awos" THEN {}
    ELSE Range(q) \cup (IF taken = <<>> THEN {} ELSE {taken[Len(taken)]})

\* The day of the timestamp of snapshot id, begun now, joins those on record.
capture(captured, prog, q, taken, id, now) ==
    IF prog = "awos" THEN captured
    ELSE Live(captured, Awaited(prog, q, taken)) @@ (id :> now)

\* modbus_client.connect(): True at once on an open socket; otherwise it
\* opens the port, returns False, or raises.
ConnectResults(open) == IF open THEN {"ok"} ELSE {"ok", "fail", "raise"}

\* current_data = {'timestamp': datetime.now().isoformat()}: a new dict, known
\* here by the number of the cycle that creates it.
fresh_dict(c) == [timestamp |-> Some(c)]

\* A variant that merges reader data into the published dict.
merge_target_published(cur, pub) == pub

\* current_data.update(data): the dict the reader's data is merged into.
merge_target(cur, pub) == cur

\* A variant that leaves the reader list at the first failed read.
after_reader_break(idx, failed) ==
    IF failed \/ idx = Len(Sensors) THEN <<"publish", 1>> ELSE <<"read", idx + 1>>

\* The for loop over the readers: a failed read is followed by the next reader
\* like a successful one; after the last reader the snapshot is published.
after_reader(idx, failed) ==
    IF idx = Len(Sensors) THEN <<"publish", 1>> ELSE <<"read", idx + 1>>

\* A variant in which an exception raised in the loop's body ends the worker.
sensor_loop_reraise == "exited"

\* except Exception as e: log; time.sleep(1): the worker's outer handler, after
\* which the while loop starts its next iteration.
sensor_loop_except == "top"

\* awos.py and awos_new.py, top of the loop: connect; on failure sleep 5 (1 if
\* connect raised) and start over, otherwise bind current_data to a new dict.
LoopConnect ==
    /\ script \in {"awos", "new"}
    /\ pc = "top"
    /\ cycle < MaxCycles
    /\ \E r \in ConnectResults(socket_open) :
         IF r = "ok"
         THEN /\ socket_open' = TRUE
              /\ cycle' = cycle + 1
              /\ heap' = heap @@ (cycle' :> fresh_dict(cycle'))
              /\ origin' = origin @@ (cycle' :> [timestamp |-> cycle'])
              /\ current_data' = Some(cycle')
              /\ cycle_outcome' = <<>>
              /\ pc' = "read"
              /\ reader_idx' = 1
              /\ UNCHANGED since_csv
         ELSE /\ since_csv' = Elapse(since_csv, IF r = "fail" THEN 5 ELSE 1)
              /\ pc' = IF r = "raise" THEN sensor_loop_except ELSE "top"
              /\ UNCHANGED <<socket_open, cycle, heap, origin, current_data,
                             cycle_outcome, reader_idx>>
    /\ connect_called' = TRUE
    /\ UNCHANGED <<script, sensor_data, data_queue, sensors_connected, faults>>
    /\ captured_day' = IF cycle' = cycle THEN captured_day
                       ELSE capture(captured_day, script, data_queue, consumed,
                                    cycle', today)
    /\ UNCHANGED <<today, clock_steps>>
    /\ UNCHANGED <<rainVars, fnVars, wdVars, stationVars, writerVars, restVars>>

\* multi_awos.py, top of the loop: a new dict first; then, with sensors
\* connected, either the reader list (socket open) or a reconnect attempt and no
\* reads this cycle; without sensors, the placeholders and the air-quality file.
LoopBegin ==
    /\ script = "multi"
    /\ pc = "top"
    /\ cycle < MaxCycles
    /\ cycle' = cycle + 1
    /\ current_data' = Some(cycle')
    /\ cycle_outcome' = <<>>
    /\ reader_idx' = 1
    /\ \E r \in ConnectResults(FALSE), file \in AqiFiles :
         LET aqi_data == read_aqi_sensor(script, file)
             placeholder == DictUpdate(fresh_dict(cycle'), Placeholders)
             filled == IF aqi_data = None THEN placeholder
                       ELSE DictUpdate(placeholder, Val(aqi_data))
         IN IF sensors_connected /\ socket_open
            THEN /\ heap' = heap @@ (cycle' :> fresh_dict(cycle'))
                 /\ origin' = origin @@ (cycle' :> [timestamp |-> cycle'])
                 /\ pc' = "read"
                 /\ UNCHANGED <<socket_open, sensors_connected, since_csv>>
            ELSE IF sensors_connected /\ r = "raise"
            THEN /\ heap' = heap @@ (cycle' :> fresh_dict(cycle'))
                 /\ origin' = origin @@ (cycle' :> [timestamp |-> cycle'])
                 /\ pc' = sensor_loop_except
                 /\ since_csv' = Elapse(since_csv, 1)
                 /\ UNCHANGED <<socket_open, sensors_connected>>
            ELSE IF sensors_connected
            THEN /\ heap' = heap @@ (cycle' :> fresh_dict(cycle'))
                 /\ origin' = origin @@ (cycle' :> [timestamp |-> cycle'])
                 /\ socket_open' = (r = "ok")
                 /\ sensors_connected' = (r = "ok")
                 /\ pc' = "publish"
                 /\ UNCHANGED since_csv
            ELSE /\ heap' = heap @@ (cycle' :> filled)
                 /\ origin' = origin @@ (cycle' :> [k \in DOMAIN filled |-> cycle'])
                 /\ pc' = "publish"
                 /\ UNCHANGED <<socket_open, sensors_connected, since_csv>>
    /\ connect_called' = (sensors_connected /\ ~socket_open)
    /\ UNCHANGED <<script, sensor_data, data_queue, faults>>
    /\ captured_day' = capture(captured_day, script, data_queue, consumed,
                               cycle', today)
    /\ UNCHANGED <<today, clock_steps>>
    /\ UNCHANGED <<rainVars, fnVars, wdVars, stationVars, writerVars, restVars>>

\* One pass of the for loop's body: data = reader(); if data: update.
LoopRead ==
    /\ pc = "read"
    /\ \E res \in BusResults(Sensors[reader_idx]), file \in AqiFiles :
         LET sensor_name == Sensors[reader_idx]
             data == call_reader(script, sensor_name, res, file)
             failed == IF sensor_name = "aqi" THEN file.state /= "ok"
                       ELSE res.kind /= "ok"
             target == merge_target(Val(current_data), sensor_data)
             next == after_reader(reader_idx, failed)
         IN /\ failed => faults < MaxFaults
            /\ faults' = IF failed THEN faults + 1 ELSE faults
            /\ IF data = None
               THEN UNCHANGED <<heap, origin>>
               ELSE /\ heap' = [heap EXCEPT ![target] = DictUpdate(@, Val(data))]
                    /\ origin' = [origin EXCEPT ![target] = Stamp(@, Val(data), cycle)]
            /\ cycle_outcome' =
                   cycle_outcome @@ (sensor_name :> IF failed THEN "failed" ELSE "ok")
            /\ pc' = next[1]
            /\ reader_idx' = next[2]
    /\ UNCHANGED <<script, cycle, current_data, sensor_data, data_queue, since_csv,
                   socket_open, sensors_connected, connect_called>>
    /\ UNCHANGED <<clockVars, rainVars, fnVars, wdVars, stationVars, writerVars, restVars>>

\* self.sensor_data = current_data: one reference is replaced; the dict that
\* was published before lives on only if the queue still holds it.
LoopPublish ==
    /\ pc = "publish"
    /\ sensor_data' = Val(current_data)
    /\ heap' = Live(heap, {sensor_data'} \cup Range(data_queue))
    /\ origin' = Live(origin, {sensor_data'} \cup Range(data_queue))
    /\ pc' = "enqueue"
    /\ UNCHANGED <<script, reader_idx, cycle, current_data, data_queue, since_csv,
                   socket_open, sensors_connected, cycle_outcome, faults, connect_called>>
    /\ UNCHANGED <<clockVars, rainVars, fnVars, wdVars, stationVars, writerVars, restVars>>

\* The end of the cycle: queue the snapshot when csv_interval has elapsed
\* since the last one was queued, then sleep for a second.
LoopEnqueue ==
    /\ pc = "enqueue"
    /\ IF since_csv >= csv_interval
       THEN /\ data_queue' = Append(data_queue, Val(current_data))
            /\ since_csv' = Elapse(0, 1)
       ELSE /\ since_csv' = Elapse(since_csv, 1)
            /\ UNCHANGED data_queue
    /\ pc' = "top"
    /\ captured_day' = Live(captured_day, Awaited(script, data_queue', consumed))
    /\ UNCHANGED <<script, reader_idx, cycle, heap, origin, current_data, sensor_data,
                   socket_open, sensors_connected, cycle_outcome, faults, connect_called>>
    /\ UNCHANGED <<today, clock_steps>>
    /\ UNCHANGED <<rainVars, fnVars, wdVars, stationVars, writerVars, restVars>>

\* The serial link drops: the client's socket is no longer open.
SocketCloses ==
    /\ socket_open
    /\ socket_open' = FALSE
    /\ UNCHANGED <<script, pc, reader_idx, cycle, heap, origin, current_data,
                   sensor_data, data_queue, since_csv, sensors_connected,
                   cycle_outcome, faults, connect_called>>
    /\ UNCHANGED <<clockVars, rainVars, fnVars, wdVars, stationVars, writerVars, restVars>>

Next ==
    \/ LoopConnect
    \/ LoopBegin
    \/ LoopRead
    \/ LoopPublish
    \/ LoopEnqueue
    \/ SocketCloses

\* After construction: init_modbus has tried to connect once (multi_awos.py
\* records the outcome in sensors_connected), sensor_data is the dict of None
\* values, the queue is empty and the worker is at the top of its loop.
Init ==
    /\ script \in Programs
    /\ socket_open \in BOOLEAN
    /\ sensors_connected = (script = "multi" /\ socket_open)
    /\ pc = "top"
    /\ reader_idx = 1
    /\ cycle = 0
    /\ heap = (0 :> InitialSensorData)
    /\ origin = (0 :> [k \in DOMAIN InitialSensorData |-> 0])
    /\ current_data = None
    /\ sensor_data = 0
    /\ data_queue = <<>>
    /\ since_csv = 0
    /\ cycle_outcome = <<>>
    /\ faults = 0
    /\ connect_called = FALSE
    /\ csv_dir = <<>>
    /\ last_values = <<>>
    /\ last_update_age = <<>>
    /\ since_write = 0
    /\ writer_pc = "run"
    /\ consumed = <<>>
    /\ row_source = None
    /\ write_result = "none"
    /\ writer_wait = 0
    /\ writer_logged = FALSE
    /\ io_faults = 0
    /\ captured_day = <<>>
    /\ pass_idx = 0
    /\ pass_log = <<>>
    /\ after_pending = {1}
    /\ timer_id = Some(1)
    /\ packed = {2}
    /\ absent_date = None
    /\ running = FALSE
    /\ main_pc = "construct"
    /\ shutdown_pos = 0
    /\ shutdown_trace = <<>>
    /\ bus_calls = {}
    /\ carried = <<>>
    /\ wall_seconds = 0
    /\ time_steps = 0
    /\ toggle_time_start = 0
    /\ current_display = "none"
    /\ apps = <<>>
    /\ checked = FALSE
    /\ state_labels = <<>>
    /\ refreshed = FALSE
    /\ last_key = "none"
    /\ gui_before = 1
    /\ timer_before = FALSE
    /\ armed_interval = gui2_toggle_interval
    /\ no_rain_counter = 0
    /\ today = 0
    /\ clock_steps = 0
    /\ last_rain_reset_day = None
    /\ daily_rain_total = None
    /\ last_rain_value = 0
    /\ rain_file = <<>>
    /\ rain_ret = None
    /\ rain_arg = None
    /\ rain_calls = 0
    /\ prev_date = None
    /\ store_result = "none"
    /\ ex_pos = 0
    /\ fn_program = "awos"
    /\ fn_name = "aqi"
    /\ fn_arg = None
    /\ fn_called = TRUE
    /\ fn_value = None
    /\ fn_state = <<"", "">>
    /\ wd_program = "awos"
    /\ wd_res = BusError
    /\ wd_called = TRUE
    /\ wd_data = None
    /\ current_gui = 2
    /\ toggle_timer = TRUE
    /\ update_timer = FALSE
    /\ display_error = TRUE

\* The acquisition worker of any of the three programs.
Spec == Init /\ [][Next]_vars

----------------------------------------------------------------------------
\* Claims about the acquisition worker (checked under Spec)

AllSensors == Range(Sensors)

Outcome(sensor_name) ==
    IF sensor_name \in DOMAIN cycle_outcome THEN cycle_outcome[sensor_name] ELSE "none"

\* The published snapshot holds this cycle's environment readings.
C1_EnvironmentPublished ==
    LET snapshot == heap[sensor_data]
        regs == SampleRegisters("environment")
    IN /\ {"temperature", "humidity", "pressure"} \subseteq DOMAIN snapshot
       /\ snapshot.temperature = Some(regs[1])
       /\ snapshot.humidity = Some(regs[2])
       /\ snapshot.pressure = Some(regs[3])
       /\ snapshot.timestamp = Some(cycle)
       /\ \A k \in {"temperature", "humidity", "pressure"} : origin[sensor_data][k] = cycle

C1_Inv ==
    /\ (pc \in {"publish", "enqueue"} /\ DOMAIN cycle_outcome /= {})
           => DOMAIN cycle_outcome = AllSensors
    /\ (pc = "enqueue" /\ Outcome("environment") = "ok") => C1_EnvironmentPublished

\* A step of the reader list goes on to the next reader, or from the last
\* reader to publication, whatever the reader did.
C1_Step ==
    (pc = "read" /\ <<pc, reader_idx>>' /= <<pc, reader_idx>>) =>
        \/ reader_idx < Len(Sensors) /\ pc' = "read" /\ reader_idx' = reader_idx + 1
        \/ reader_idx = Len(Sensors) /\ pc' = "publish"

\* C1: in one poll cycle each of the six readers is invoked whatever the earlier
\* readers of the cycle did, and when the environment read succeeds the snapshot
\* published at the end of the cycle holds that cycle's temperature, humidity
\* and pressure, in particular when the wind-speed read failed.
C1_AllReadersRun == []C1_Inv /\ [][C1_Step]_vars

C1_Witness ==
    /\ pc = "enqueue"
    /\ Outcome("wind_speed") = "failed"
    /\ Outcome("environment") = "ok"
    /\ C1_EnvironmentPublished

\* The dicts another thread can obtain: the published one and the queued ones.
Published == {sensor_data} \cup Range(data_queue)

\* Every key of the dict was written by the cycle that created the dict.
Uniform(id) == \A k \in DOMAIN origin[id] : origin[id][k] = origin[id].timestamp

C2_Inv == \A id \in Published : Uniform(id)

C2_Step ==
    /\ \A id \in Published \cap DOMAIN heap' :
           heap'[id] = heap[id] /\ origin'[id] = origin[id]
    /\ \A id \in DOMAIN heap \cap DOMAIN heap' :
           heap'[id] /= heap[id] => (current_data = Some(id) /\ id \notin Published)
    /\ sensor_data' /= sensor_data => (pc = "publish" /\ Some(sensor_data') = current_data)
    /\ \A i \in DOMAIN data_queue' :
           i \notin DOMAIN data_queue => Some(data_queue'[i]) = current_data

\* C2: a snapshot is built in a dict only the worker holds and published by
\* replacing the one reference sensor_data; a published or queued dict is never
\* modified, so every dict another thread can obtain holds the values of one
\* cycle only.
C2_AtomicPublication == []C2_Inv /\ [][C2_Step]_vars

\* The snapshot of cycle 1 is published while cycle 2's dict is half built.
C2_Witness ==
    /\ pc = "read"
    /\ reader_idx > 2
    /\ sensor_data = 1
    /\ current_data = Some(2)
    /\ "uv_index" \in DOMAIN heap[1]
    /\ "uv_index" \in DOMAIN heap[2]

\* C9: when the air-quality file is absent or empty, the snapshot of that cycle
\* carries no PM2.5 value, and the other readers of the cycle still run.
C9_NoAqiData ==
    (pc = "enqueue" /\ Outcome("aqi") = "failed") =>
        /\ DOMAIN cycle_outcome = AllSensors
        /\ LET snapshot == heap[sensor_data]
           IN "pm2_5" \notin DOMAIN snapshot \/ snapshot.pm2_5 = None

\* The snapshot has no value under any of the keys.
NoValue(snapshot, keys) ==
    \A k \in keys : k \notin DOMAIN snapshot \/ snapshot[k] = None

\* C13: in the snapshot of a cycle, a failed UV or wind-speed read shows as the
\* value 0.0, and a failed wind-direction, rainfall or environment read leaves
\* no value: after a failed environment read there is no temperature, humidity
\* or pressure.
C13_FallbackPolicy ==
    (pc = "enqueue" /\ DOMAIN cycle_outcome = AllSensors) =>
        LET snapshot == heap[sensor_data]
        IN /\ Outcome("uv") = "failed" => snapshot.uv_index = Some(0)
           /\ Outcome("wind_speed") = "failed" => snapshot.wind_speed = Some(0)
           /\ Outcome("wind_direction") = "failed" =>
                  NoValue(snapshot, {"wind_dir_degrees", "wind_dir_cardinal"})
           /\ Outcome("rainfall") = "failed" => NoValue(snapshot, {"rainfall"})
           /\ Outcome("environment") = "failed" =>
                  NoValue(snapshot, {"temperature", "humidity", "pressure"})

C14_Step ==
    (pc = "top" /\ ~socket_open /\ loopVars' /= loopVars) => connect_called'

\* C14: a connect failure is never final: every iteration the acquisition loop
\* begins while the bus is not connected attempts the connection again.
C14_ConnectRetried == [][C14_Step]_vars

\* C15: a snapshot is pushed onto the queue once every csv_interval whatever the
\* poll cycle does: the time since the last push never exceeds csv_interval,
\* also while bus connects fail.
C15_PushEveryInterval == since_csv <= csv_interval

----------------------------------------------------------------------------
\* Derived metrics: AQI and the categorical bands

\* The PM2.5 breakpoints of calculate_aqi, in hundredths, with the index range
\* of each segment: pm <= upto selects the segment; the last one is the else
\* branch and takes every larger value too.
AqiSegments == <<
    [upto |-> 1200,  lo |-> 0,     hi |-> 1200,  ilo |-> 0,   ihi |-> 50],
    [upto |-> 3540,  lo |-> 1210,  hi |-> 3540,  ilo |-> 51,  ihi |-> 100],
    [upto |-> 5540,  lo |-> 3550,  hi |-> 5540,  ilo |-> 101, ihi |-> 150],
    [upto |-> 15040, lo |-> 5550,  hi |-> 15040, ilo |-> 151, ihi |-> 200],
    [upto |-> 25040, lo |-> 15050, hi |-> 25040, ilo |-> 201, ihi |-> 300],
    [upto |-> 50040, lo |-> 25050, hi |-> 50040, ilo |-> 301, ihi |-> 500] >>

RECURSIVE aqi_segment_from(_, _)
aqi_segment_from(x, k) ==
    IF k = Len(AqiSegments) \/ x <= AqiSegments[k].upto THEN k
    ELSE aqi_segment_from(x, k + 1)

RECURSIVE aqi_segment_strict_from(_, _)
aqi_segment_strict_from(x, k) ==
    IF k = Len(AqiSegments) \/ x < AqiSegments[k].upto THEN k
    ELSE aqi_segment_strict_from(x, k + 1)

aqi_segment_strict(x) == aqi_segment_strict_from(x, 1)

\* The if/elif chain of calculate_aqi: the first segment with pm2_5 <= upto.
aqi_segment(x) == aqi_segment_from(x, 1)

\* ((pm - lo) / (hi - lo)) * (ihi - ilo) + ilo, as an exact rational.
aqi_linear(x, g) ==
    Rat((x - g.lo) * (g.ihi - g.ilo) + g.ilo * (g.hi - g.lo), g.hi - g.lo)

\* calculate_aqi(pm2_5); awos.py and multi_awos.py compute the same value.
calculate_aqi(pm2_5) ==
    IF pm2_5 = None THEN None
    ELSE Some(aqi_linear(Val(pm2_5), AqiSegments[aqi_segment(Val(pm2_5))]))

\* A band: lo <= x <= hi, or lo < x <= hi when the lower end is open.
InBand(x, b) ==
    /\ IF b.open THEN RatLess(b.lo, x) ELSE RatLeq(b.lo, x)
    /\ RatLeq(x, b.hi)

Band(lo, open, hi, label, color) ==
    [lo |-> lo, open |-> open, hi |-> hi, label |-> label, color |-> color]

RECURSIVE band_from(_, _, _, _)
band_from(x, bands, k, otherwise) ==
    IF k > Len(bands) THEN otherwise
    ELSE IF InBand(x, bands[k]) THEN <<bands[k].label, bands[k].color>>
    ELSE band_from(x, bands, k + 1, otherwise)

\* The lower end of each band after the first: awos.py tests "hi_prev < x",
\* multi_awos.py "hi_prev + 0.1 <= x" and awos_new.py "hi_prev + 1 <= x".
LowerEnd(program, prev) ==
    IF program = "awos" THEN Rat(prev, 1)
    ELSE IF program = "multi" THEN Rat(prev * 10 + 1, 10)
    ELSE Rat(prev + 1, 1)

Green(program) == IF program = "new" THEN "#00E400" ELSE "#39FF14"

AqiBands(program) == <<
    Band(Rat(0, 1), FALSE, Rat(50, 1), "GOOD", Green(program)),
    Band(LowerEnd(program, 50), program = "awos", Rat(100, 1), "MODERATE", "#FFFF00"),
    Band(LowerEnd(program, 100), program = "awos", Rat(150, 1), "UNHEALTHY", "#FF7E00"),
    Band(LowerEnd(program, 150), program = "awos", Rat(200, 1), "UNHEALTHY", "#FF0000"),
    Band(LowerEnd(program, 200), program = "awos", Rat(300, 1), "VERY UNHEALTHY", "#8F3F97") >>

UvBands(program) == <<
    Band(Rat(0, 1), FALSE, Rat(2, 1), "LOW", Green(program)),
    Band(LowerEnd(program, 2), program = "awos", Rat(5, 1), "MODERATE", "#FFFF00"),
    Band(LowerEnd(program, 5), program = "awos", Rat(7, 1), "HIGH", "#FF7E00"),
    Band(LowerEnd(program, 7), program = "awos", Rat(10, 1), "VERY HIGH", "#FF0000") >>

HumidityBands(program) == <<
    Band(Rat(0, 1), FALSE, Rat(30, 1), "LOW", "#3EC1EC"),
    Band(LowerEnd(program, 30), program = "awos", Rat(50, 1), "NORMAL", Green(program)),
    Band(LowerEnd(program, 50), program = "awos", Rat(60, 1), "SLIGHTLY HIGH", "#FFFF00"),
    Band(LowerEnd(program, 60), program = "awos", Rat(70, 1), "HIGH", "#FF7E00") >>

Unavailable == <<"N/A", "#FFFFFF">>

get_uv_state_no_check(program, uv) ==
    band_from(IF uv = None THEN Rat(0, 1) ELSE Rat(Val(uv), 100),
              UvBands(program), 1, <<"EXTREME", "#8F3F97">>)

\* get_aqi_state(aqi), aqi a rational or None
get_aqi_state(program, aqi) ==
    IF aqi = None THEN Unavailable
    ELSE band_from(Val(aqi), AqiBands(program), 1, <<"HAZARDOUS", "#7E0023">>)

\* get_uv_state(uv), uv in hundredths or None
get_uv_state(program, uv) ==
    IF uv = None THEN Unavailable
    ELSE band_from(Rat(Val(uv), 100), UvBands(program), 1, <<"EXTREME", "#8F3F97">>)

\* get_humidity_state(humidity), humidity in tenths of a percent or None
get_humidity_state(program, humidity) ==
    IF humidity = None THEN Unavailable
    ELSE band_from(Rat(Val(humidity), 10), HumidityBands(program), 1,
                   <<"VERY HIGH", "#FF0000">>)

NotCalled == <<"", "">>

\* calculate_aqi(pm2_5), then get_aqi_state of its result.
CallCalculateAqi ==
    /\ fn_name = "aqi" /\ ~fn_called
    /\ fn_called' = TRUE
    /\ fn_value' = calculate_aqi(fn_arg)
    /\ fn_state' = get_aqi_state(fn_program, calculate_aqi(fn_arg))
    /\ UNCHANGED <<fn_program, fn_name, fn_arg>>
    /\ UNCHANGED <<clockVars, rainVars, wdVars, loopVars, stationVars, writerVars, restVars>>

CallGetUvState ==
    /\ fn_name = "uv" /\ ~fn_called
    /\ fn_called' = TRUE
    /\ fn_state' = get_uv_state(fn_program, fn_arg)
    /\ UNCHANGED <<fn_program, fn_name, fn_arg, fn_value>>
    /\ UNCHANGED <<clockVars, rainVars, wdVars, loopVars, stationVars, writerVars, restVars>>

CallGetHumidityState ==
    /\ fn_name = "humidity" /\ ~fn_called
    /\ fn_called' = TRUE
    /\ fn_state' = get_humidity_state(fn_program, fn_arg)
    /\ UNCHANGED <<fn_program, fn_name, fn_arg, fn_value>>
    /\ UNCHANGED <<clockVars, rainVars, wdVars, loopVars, stationVars, writerVars, restVars>>

\* The arguments a call is made with: every value at the readers' resolution.
FnArgs(name) ==
    {None} \cup {Some(v) : v \in 0 .. (IF name = "aqi" THEN MaxPm
                                       ELSE IF name = "uv" THEN MaxUv
                                       ELSE MaxHumidity)}

MetricsNext == CallCalculateAqi \/ CallGetUvState \/ CallGetHumidityState

SpecMetricsInit ==
    /\ fn_program \in Programs
    /\ fn_name \in {"aqi", "uv", "humidity"}
    /\ fn_arg \in FnArgs(fn_name)
    /\ fn_called = FALSE
    /\ fn_value = None
    /\ fn_state = NotCalled
    /\ wd_program = "awos"
    /\ wd_res = BusError
    /\ wd_called = TRUE
    /\ wd_data = None
    /\ today = 0
    /\ clock_steps = 0
    /\ last_rain_reset_day = None
    /\ daily_rain_total = None
    /\ last_rain_value = 0
    /\ rain_file = <<>>
    /\ rain_ret = None
    /\ rain_arg = None
    /\ rain_calls = 0
    /\ prev_date = None
    /\ store_result = "none"
    /\ ex_pos = 0
    /\ script = "awos"
    /\ pc = "top"
    /\ reader_idx = 1
    /\ cycle = 0
    /\ heap = <<>>
    /\ origin = <<>>
    /\ current_data = None
    /\ sensor_data = 0
    /\ data_queue = <<>>
    /\ since_csv = 0
    /\ socket_open = FALSE
    /\ sensors_connected = FALSE
    /\ cycle_outcome = <<>>
    /\ faults = 0
    /\ connect_called = FALSE
    /\ csv_dir = <<>>
    /\ last_values = <<>>
    /\ last_update_age = <<>>
    /\ since_write = 0
    /\ writer_pc = "run"
    /\ consumed = <<>>
    /\ row_source = None
    /\ write_result = "none"
    /\ writer_wait = 0
    /\ writer_logged = FALSE
    /\ io_faults = 0
    /\ captured_day = <<>>
    /\ pass_idx = 0
    /\ pass_log = <<>>
    /\ after_pending = {1}
    /\ timer_id = Some(1)
    /\ packed = {2}
    /\ absent_date = None
    /\ running = FALSE
    /\ main_pc = "construct"
    /\ shutdown_pos = 0
    /\ shutdown_trace = <<>>
    /\ bus_calls = {}
    /\ carried = <<>>
    /\ wall_seconds = 0
    /\ time_steps = 0
    /\ toggle_time_start = 0
    /\ current_display = "none"
    /\ apps = <<>>
    /\ checked = FALSE
    /\ state_labels = <<>>
    /\ refreshed = FALSE
    /\ last_key = "none"
    /\ gui_before = 1
    /\ timer_before = FALSE
    /\ armed_interval = gui2_toggle_interval
    /\ no_rain_counter = 0
    /\ current_gui = 2
    /\ toggle_timer = TRUE
    /\ update_timer = FALSE
    /\ display_error = TRUE

\* Each derived-metric function called once, on any argument.
SpecMetrics == SpecMetricsInit /\ [][MetricsNext]_vars

----------------------------------------------------------------------------
\* Claims about the derived metrics (checked under SpecMetrics)

AqiCalled == fn_name = "aqi" /\ fn_called /\ fn_arg /= None

\* |a - b| < 0.1
RatWithinTenth(a, b) ==
    /\ RatLess(Rat(10 * a[1], a[2]), Rat(10 * b[1] + b[2], b[2]))
    /\ RatLess(Rat(10 * b[1], b[2]), Rat(10 * a[1] + a[2], a[2]))

RatEq(a, b) == RatLeq(a, b) /\ RatLeq(b, a)

C6_Breakpoints == {1200, 3540, 5540, 15040, 25040}

\* C6: at each PM2.5 breakpoint b (12.0, 35.4, 55.4, 150.4, 250.4) the value
\* calculate_aqi returns at b and the value it returns just below b (one
\* hundredth below) differ by less than 0.1.
C6_AqiContinuity ==
    (AqiCalled /\ Val(fn_arg) \in C6_Breakpoints) =>
        RatWithinTenth(Val(fn_value), Val(calculate_aqi(Some(Val(fn_arg) - 1))))

\* The AQI at the breakpoint 250.4 has been computed, and is 300.
C6_Witness ==
    AqiCalled /\ fn_arg = Some(25040) /\ RatEq(Val(fn_value), Rat(300, 1))

\* x in (lo, hi], or in [lo, hi] when closed
C7_In(v, lo, closed, hi) ==
    /\ IF closed THEN RatLeq(Rat(lo, 1), v) ELSE RatLess(Rat(lo, 1), v)
    /\ RatLeq(v, Rat(hi, 1))

\* C7: calculate_aqi maps [0,12] into [0,50], (12,35.4] into (50,100],
\* (35.4,55.4] into (100,150], (55.4,150.4] into (150,200], (150.4,250.4]
\* into (200,300] and every value above 250.4 into (300,500].
C7_AqiRanges ==
    AqiCalled =>
        LET x == Val(fn_arg)
            v == Val(fn_value)
        IN /\ (x <= 1200) => C7_In(v, 0, TRUE, 50)
           /\ (1200 < x /\ x <= 3540) => C7_In(v, 50, FALSE, 100)
           /\ (3540 < x /\ x <= 5540) => C7_In(v, 100, FALSE, 150)
           /\ (5540 < x /\ x <= 15040) => C7_In(v, 150, FALSE, 200)
           /\ (15040 < x /\ x <= 25040) => C7_In(v, 200, FALSE, 300)
           /\ (25040 < x) => C7_In(v, 300, FALSE, 500)

\* C8: with an absent argument calculate_aqi returns None, and get_aqi_state,
\* get_uv_state and get_humidity_state return the label "N/A".
C8_AbsencePropagates ==
    (fn_called /\ fn_arg = None) =>
        /\ fn_state[1] = "N/A"
        /\ fn_name = "aqi" => fn_value = None

\* get_uv_state has been called with None and answered N/A.
C8_Witness ==
    fn_called /\ fn_arg = None /\ fn_name = "uv" /\ fn_state = Unavailable

\* The ranges a banding function lists, and the pair its else branch returns.
ListedBands(program, name) ==
    IF name = "aqi" THEN AqiBands(program)
    ELSE IF name = "uv" THEN UvBands(program)
    ELSE HumidityBands(program)

\* The value a banding function receives for the argument of a call.
BandInput(name, arg) ==
    IF name = "aqi" THEN Val(calculate_aqi(arg))
    ELSE IF name = "uv" THEN Rat(Val(arg), 100)
    ELSE Rat(Val(arg), 10)

BandState(program, name, arg) ==
    IF name = "aqi" THEN get_aqi_state(program, calculate_aqi(arg))
    ELSE IF name = "uv" THEN get_uv_state(program, arg)
    ELSE get_humidity_state(program, arg)

\* The ranges holding x: the listed ones, and the open range above the last.
RangesOf(x, bands) ==
    {k \in 1 .. Len(bands) : InBand(x, bands[k])}
        \cup (IF RatLess(bands[Len(bands)].hi, x) THEN {Len(bands) + 1} ELSE {})

\* The position of a (label, color) pair in the order of the bands.
BandRank(state, bands) ==
    IF \E k \in 1 .. Len(bands) : state = <<bands[k].label, bands[k].color>>
    THEN CHOOSE k \in 1 .. Len(bands) : state = <<bands[k].label, bands[k].color>>
    ELSE Len(bands) + 1

\* C23: every non-negative input at the readers' resolution (UV in hundredths,
\* humidity in tenths, AQI as calculate_aqi returns it) lies in exactly one
\* range of its banding function and gets that range's band, and the next
\* smaller input never gets a higher band.
C23_OneBandOrdered ==
    (fn_called /\ fn_arg /= None) =>
        LET bands == ListedBands(fn_program, fn_name)
            x == BandInput(fn_name, fn_arg)
            below == Some(Val(fn_arg) - 1)
        IN /\ Cardinality(RangesOf(x, bands)) = 1
           /\ BandRank(fn_state, bands) \in RangesOf(x, bands)
           /\ (Val(fn_arg) > 0 /\ RatLeq(BandInput(fn_name, below), x)) =>
                 BandRank(BandState(fn_program, fn_name, below), bands)
                     <= BandRank(fn_state, bands)

----------------------------------------------------------------------------
\* The accumulator as a state machine

RainState == [reset_day |-> last_rain_reset_day, total |-> daily_rain_total,
              last |-> last_rain_value, file |-> rain_file, ret |-> rain_ret,
              store |-> store_result]

\* The readings of the worked example and the totals the example expects.
ExampleRaw == <<100, 103, 103, 90, 95>>

ExampleTotals == <<0, 3, 3, 3, 8>>

\* Position in ExampleRaw after one more reading r: the example starts at the
\* first reading of the run and continues while the day stays the same.
ExNext(r) ==
    IF rain_calls = 0 /\ r = Some(ExampleRaw[1]) THEN 1
    ELSE IF /\ ex_pos > 0
            /\ ex_pos < Len(ExampleRaw)
            /\ prev_date = Some(today)
            /\ r = Some(ExampleRaw[ex_pos + 1])
         THEN ex_pos + 1
         ELSE 0

\* One call of process_rainfall(current_rain).
CallProcessRainfall(current_rain, io_ok) ==
    /\ rain_calls < MaxRainCalls
    /\ LET s == process_rainfall(RainState, current_rain, today, io_ok)
       IN /\ last_rain_reset_day' = s.reset_day
          /\ daily_rain_total' = s.total
          /\ last_rain_value' = s.last
          /\ rain_file' = s.file
          /\ rain_ret' = s.ret
          /\ store_result' = s.store
    /\ rain_arg' = current_rain
    /\ rain_calls' = rain_calls + 1
    /\ prev_date' = IF current_rain = None THEN prev_date ELSE Some(today)
    /\ absent_date' = IF current_rain = None THEN Some(today) ELSE None
    /\ ex_pos' = ExNext(current_rain)
    /\ UNCHANGED clockVars

\* Time passes: the calendar day advances.
DayPasses(k) ==
    /\ clock_steps < MaxClockSteps
    /\ today' = today + k
    /\ clock_steps' = clock_steps + 1
    /\ UNCHANGED captured_day

RainCall ==
    /\ \E r \in {None} \cup {Some(v) : v \in RainInputs} :
           \E io_ok \in BOOLEAN : CallProcessRainfall(r, io_ok)
    /\ UNCHANGED <<fnVars, wdVars, loopVars, stationVars, writerVars, restVars>>

RainClock ==
    /\ \E k \in DayJumps : DayPasses(k)
    /\ UNCHANGED <<rainVars, fnVars, wdVars, loopVars, stationVars, writerVars, restVars>>

RainNext == RainCall \/ RainClock

SpecRainInit ==
    /\ today = 0
    /\ clock_steps = 0
    /\ last_rain_reset_day = None
    /\ daily_rain_total = None
    /\ last_rain_value = 0
    /\ rain_file = <<>>
    /\ rain_ret = None
    /\ rain_arg = None
    /\ rain_calls = 0
    /\ prev_date = None
    /\ store_result = "none"
    /\ ex_pos = 0
    /\ script = "awos"
    /\ pc = "top"
    /\ reader_idx = 1
    /\ cycle = 0
    /\ heap = <<>>
    /\ origin = <<>>
    /\ current_data = None
    /\ sensor_data = 0
    /\ data_queue = <<>>
    /\ since_csv = 0
    /\ socket_open = FALSE
    /\ sensors_connected = FALSE
    /\ cycle_outcome = <<>>
    /\ faults = 0
    /\ connect_called = FALSE
    /\ csv_dir = <<>>
    /\ last_values = <<>>
    /\ last_update_age = <<>>
    /\ since_write = 0
    /\ writer_pc = "run"
    /\ consumed = <<>>
    /\ row_source = None
    /\ write_result = "none"
    /\ writer_wait = 0
    /\ writer_logged = FALSE
    /\ io_faults = 0
    /\ captured_day = <<>>
    /\ pass_idx = 0
    /\ pass_log = <<>>
    /\ after_pending = {1}
    /\ timer_id = Some(1)
    /\ packed = {2}
    /\ absent_date = None
    /\ running = FALSE
    /\ main_pc = "construct"
    /\ shutdown_pos = 0
    /\ shutdown_trace = <<>>
    /\ bus_calls = {}
    /\ carried = <<>>
    /\ wall_seconds = 0
    /\ time_steps = 0
    /\ toggle_time_start = 0
    /\ current_display = "none"
    /\ apps = <<>>
    /\ checked = FALSE
    /\ state_labels = <<>>
    /\ refreshed = FALSE
    /\ last_key = "none"
    /\ gui_before = 1
    /\ timer_before = FALSE
    /\ armed_interval = gui2_toggle_interval
    /\ no_rain_counter = 0
    /\ fn_program = "awos"
    /\ fn_name = "aqi"
    /\ fn_arg = None
    /\ fn_called = TRUE
    /\ fn_value = None
    /\ fn_state = NotCalled
    /\ wd_program = "awos"
    /\ wd_res = BusError
    /\ wd_called = TRUE
    /\ wd_data = None
    /\ current_gui = 2
    /\ toggle_timer = TRUE
    /\ update_timer = FALSE
    /\ display_error = TRUE

\* The accumulator driven directly: any reading, at any time.
SpecRain == SpecRainInit /\ [][RainNext]_vars

----------------------------------------------------------------------------
\* Claims about the rainfall accumulator (checked under SpecRain)

\* A step that is a process_rainfall call with a reading.
ReadingStep == rain_calls' = rain_calls + 1 /\ rain_arg' /= None

C3_Step ==
    ReadingStep =>
        LET r == Val(rain_arg')
        IN IF prev_date = None
           THEN /\ daily_rain_total' = Some(0)
                /\ last_rain_value' = r
                /\ rain_ret' = Some(0)
           ELSE prev_date = Some(today) =>
                /\ daily_rain_total' =
                      IF r >= last_rain_value
                      THEN Some(Val(daily_rain_total) + (r - last_rain_value))
                      ELSE daily_rain_total
                /\ last_rain_value' = r
                /\ rain_ret' = daily_rain_total'

C3_Example == ex_pos > 0 => rain_ret = Some(ExampleTotals[ex_pos])

\* C3: for readings taken on one calendar day, the first reading sets
\* daily_total to 0 and the baseline to the reading; a later reading with
\* raw >= baseline adds raw - baseline and advances the baseline; one with
\* raw < baseline leaves daily_total unchanged and only re-baselines; and the
\* readings 10.0, 10.3, 10.3, 9.0, 9.5 give the totals 0, 0.3, 0.3, 0.3, 0.8.
C3_SameDayAccumulation == []C3_Example /\ [][C3_Step]_vars

\* The whole example has been played, its sensor reset included.
C3_Witness == ex_pos = Len(ExampleRaw) /\ rain_ret = Some(8)

\* What a reading does to the record, given the date of the reading before it.
C4_Step ==
    (ReadingStep /\ prev_date /= None /\ store_result' /= "failed") =>
        IF prev_date /= Some(today)
        THEN /\ rain_file' = Append(rain_file, <<DateOf(today), Val(daily_rain_total)>>)
             /\ daily_rain_total' = Some(0)
             /\ last_rain_value' = Val(rain_arg')
             /\ rain_ret' = Some(0)
        ELSE rain_file' = rain_file

\* C4: for two consecutive readings whose calendar dates differ (the file
\* being writable), the call appends exactly one row holding the total
\* accumulated before the crossing, then daily_total is 0, the baseline is
\* the new reading and 0 is returned; a later reading on the same date
\* appends nothing.
C4_DayBoundaryFlush == [][C4_Step]_vars

\* A day-boundary flush that did happen: one row, total back to 0.
C4_Witness ==
    /\ Len(rain_file) = 1
    /\ store_result = "ok"
    /\ rain_file[1][2] > 0
    /\ rain_ret = Some(0)

\* What one call of process_rainfall does to the accumulator.
C35_Step ==
    rain_calls' = rain_calls + 1 =>
        /\ daily_rain_total' /= None => Val(daily_rain_total') >= 0
        /\ last_rain_value' = IF rain_arg' = None THEN last_rain_value
                              ELSE Val(rain_arg')
        /\ (daily_rain_total /= None /\ last_rain_reset_day' = last_rain_reset_day) =>
              Val(daily_rain_total') >= Val(daily_rain_total)
        /\ (rain_arg /= None /\ rain_arg' = rain_arg /\ prev_date = Some(today)) =>
              /\ UNCHANGED <<last_rain_reset_day, daily_rain_total, last_rain_value,
                             rain_file>>
              /\ rain_ret' = daily_rain_total

\* C35: after any calls of process_rainfall with non-negative readings,
\* daily_total is >= 0 and the baseline is the last present reading; while no
\* day-boundary reset happens daily_total never decreases; and a call with the
\* same reading as the call before it, on the same day, changes nothing.
C35_AccumulatorInvariants == [][C35_Step]_vars

\* The same reading has been processed twice in a row on one day, after rain.
C35_Witness == ex_pos = 3 /\ rain_ret = Some(3) /\ rain_arg = Some(last_rain_value)

\* A call without a reading, and the first reading after such a call made on
\* another calendar day than the reading before it.
C36_Step ==
    /\ (rain_calls' = rain_calls + 1 /\ rain_arg' = None) =>
          /\ rain_ret' = None
          /\ store_result' = "none"
          /\ UNCHANGED <<last_rain_reset_day, daily_rain_total, last_rain_value,
                         rain_file>>
    /\ (/\ ReadingStep
        /\ prev_date /= None
        /\ absent_date /= None
        /\ absent_date /= prev_date) =>
          /\ store_result' /= "none"
          /\ store_result' = "ok" =>
                rain_file' = Append(rain_file, <<DateOf(today), Val(daily_rain_total)>>)
          /\ daily_rain_total' = Some(0)

\* C36: process_rainfall(None) returns None, leaves baseline, daily_total and
\* last reset day unchanged and writes no row, even when the calendar day has
\* changed since the last present reading; the flush of that day's total then
\* happens at the first later present reading.
C36_AbsentReadingDefersFlush == [][C36_Step]_vars

\* A reading that follows an earlier reading: whether it flushes, and the row.
C38_Step ==
    (ReadingStep /\ prev_date /= None) =>
        /\ (store_result' /= "none") <=>
              (DayOfMonth(today) /= DayOfMonth(Val(prev_date)))
        /\ rain_file' = IF store_result' = "ok"
                        THEN Append(rain_file, <<DateOf(today), Val(daily_rain_total)>>)
                        ELSE rain_file

----------------------------------------------------------------------------
\* The station (awos.py): the worker publishing snapshots, the clock, and the
\* display callbacks run by the GUI event loop

\* The keys of common_widgets: setup_gui stores one widget per common element
\* and display under f"{name}_gui1" and f"{name}_gui2".
common_widgets ==
    {"time_gui1", "time_gui2", "date_gui1", "date_gui2", "day_gui1", "day_gui2"}

\* The attributes the object has once __init__ is through that the toggle
\* callbacks read.
StationAttributes == {"gui1_toggle_interval", "gui2_toggle_interval", "_toggle_timer"}

\* dict.get(key)
Get(d, k) == IF k \in DOMAIN d THEN d[k] ELSE None

\* update_display: the lookups common_widgets['day'], ['date'], ['time'] come
\* first; a KeyError there is caught at the end of the function, past the
\* widget updates and past the root.after that schedules the next run. After
\* them the widgets of the display that is shown are updated: GUI-2's include
\* 'rain', whose parser is process_rainfall(data.get('rainfall')).
UpdateDisplay ==
    IF ~({"day", "date", "time"} \subseteq common_widgets)
    THEN /\ display_error' = TRUE
         /\ update_timer' = FALSE
         /\ UNCHANGED rainVars
    ELSE /\ display_error' = FALSE
         /\ update_timer' = TRUE
         /\ IF current_gui = 2
            THEN \E io_ok \in BOOLEAN :
                     CallProcessRainfall(Get(heap[sensor_data], "rainfall"), io_ok)
            ELSE UNCHANGED rainVars

\* A run of update_display: from its own timer when one is pending, or from
\* force_update when the operator presses F5.
CallUpdateDisplay ==
    /\ \E from \in {"F5"} \cup (IF update_timer THEN {"timer"} ELSE {}) : UpdateDisplay
    /\ UNCHANGED <<current_gui, toggle_timer, last_key, gui_before, timer_before,
                   armed_interval, after_pending, timer_id, packed>>
    /\ UNCHANGED <<clockVars, fnVars, wdVars, loopVars, writerVars, restVars>>

\* The run of update_display its own timer starts.
TimerUpdate == update_timer /\ CallUpdateDisplay

\* The ids root.after may return: Tk never returns an id that is still pending,
\* and the model reuses an id only when it is neither pending nor held.
AfterIds == 1..3

\* root.after_cancel(id): the callback with this id, if pending, is dropped.
after_cancel(pending, id) == IF id = None THEN pending ELSE pending \ {Val(id)}

\* root.after(ms, toggle_gui): a new id, now pending.
after(pending, held) ==
    CHOOSE n \in AfterIds : n \notin pending /\ Some(n) /= held

\* A variant of toggle_gui that packs the new canvas without forgetting the
\* old one.
toggle_gui_no_forget(immediate, pending) ==
    /\ packed' = packed \cup {IF immediate \/ current_gui = 1 THEN 2 ELSE 1}
    /\ current_gui' = IF immediate \/ current_gui = 1 THEN 2 ELSE 1
    /\ toggle_timer' = TRUE
    /\ timer_id' = Some(after(after_cancel(pending, timer_id), timer_id))
    /\ after_pending' = after_cancel(pending, timer_id) \cup {Val(timer_id')}
    /\ armed_interval' = IF immediate \/ current_gui = 1
                         THEN gui2_toggle_interval ELSE gui1_toggle_interval

\* toggle_gui(immediate), run while the callbacks in pending are waiting:
\* cancel the timer held in _toggle_timer, forget one canvas and pack the
\* other (GUI-2 if immediate or GUI-1 is shown, GUI-1 otherwise), and arm the
\* timer with the interval of the display now shown.
toggle_gui(immediate, pending) ==
    /\ packed' = IF immediate \/ current_gui = 1
                 THEN (packed \ {1}) \cup {2} ELSE (packed \ {2}) \cup {1}
    /\ current_gui' = IF immediate \/ current_gui = 1 THEN 2 ELSE 1
    /\ toggle_timer' = TRUE
    /\ timer_id' = Some(after(after_cancel(pending, timer_id), timer_id))
    /\ after_pending' = after_cancel(pending, timer_id) \cup {Val(timer_id')}
    /\ armed_interval' = IF immediate \/ current_gui = 1
                         THEN gui2_toggle_interval ELSE gui1_toggle_interval

\* What a key handler finds when it starts.
KeyPressed(key) ==
    /\ last_key' = key
    /\ gui_before' = current_gui
    /\ timer_before' = toggle_timer

\* The pending toggle timer fires.
ToggleTimerFires ==
    /\ toggle_timer
    /\ \E id \in after_pending : toggle_gui(FALSE, after_pending \ {id})
    /\ last_key' = "none"
    /\ UNCHANGED <<update_timer, display_error, gui_before, timer_before>>
    /\ UNCHANGED <<clockVars, rainVars, fnVars, wdVars, loopVars, writerVars, restVars>>

\* Tab: force_gui_switch cancels the pending timer and calls
\* toggle_gui(immediate=True).
PressTab ==
    /\ KeyPressed("Tab")
    /\ toggle_gui(TRUE, after_cancel(after_pending, timer_id))
    /\ UNCHANGED <<update_timer, display_error>>
    /\ UNCHANGED <<clockVars, rainVars, fnVars, wdVars, loopVars, writerVars, restVars>>

\* Space: toggle_pause_on_current_gui. With a timer pending it is cancelled;
\* otherwise the resume reads self.toggle_interval, and the AttributeError of a
\* missing attribute ends the callback with no timer armed.
PressSpace ==
    /\ KeyPressed("space")
    /\ toggle_timer' = IF toggle_timer THEN FALSE
                       ELSE "toggle_interval" \in StationAttributes
    /\ IF timer_id /= None
       THEN /\ after_pending' = after_cancel(after_pending, timer_id)
            /\ timer_id' = None
       ELSE IF "toggle_interval" \in StationAttributes
       THEN /\ timer_id' = Some(after(after_pending, timer_id))
            /\ after_pending' = after_pending \cup {Val(timer_id')}
       ELSE UNCHANGED <<after_pending, timer_id>>
    /\ armed_interval' = 0
    /\ UNCHANGED <<current_gui, update_timer, display_error, packed>>
    /\ UNCHANGED <<clockVars, rainVars, fnVars, wdVars, loopVars, writerVars, restVars>>

\* One whole cycle of the worker in which the rainfall read succeeds: a new
\* dict replaces the published one (the other sensors play no part here).
AcquireCycle ==
    /\ \E r \in RainInputs :
         LET id == 1 - sensor_data
             data == read_rainfall(script, BusOk(<<r>>))
         IN /\ heap' = (id :> DictUpdate(fresh_dict(today), Val(data)))
            /\ origin' = (id :> [k \in {"timestamp", "rainfall"} |-> today])
            /\ sensor_data' = id
            /\ current_data' = Some(id)
    /\ UNCHANGED <<script, pc, reader_idx, cycle, data_queue, since_csv, socket_open,
                   sensors_connected, cycle_outcome, faults, connect_called>>
    /\ UNCHANGED <<clockVars, rainVars, fnVars, wdVars, stationVars, writerVars, restVars>>

StationClock ==
    /\ \E k \in DayJumps : DayPasses(k)
    /\ UNCHANGED <<rainVars, fnVars, wdVars, loopVars, stationVars, writerVars, restVars>>

StationNext ==
    \/ AcquireCycle
    \/ StationClock
    \/ CallUpdateDisplay
    \/ ToggleTimerFires
    \/ PressTab
    \/ PressSpace

\* After __init__: update_display has run once, toggle_gui() has shown GUI-2
\* and armed the toggle timer, and the worker is running.
StationInit ==
    /\ current_gui = 2
    /\ toggle_timer = TRUE
    /\ update_timer = FALSE
    /\ display_error = TRUE
    /\ script = "awos"
    /\ pc = "top"
    /\ reader_idx = 1
    /\ cycle = 0
    /\ heap = (0 :> InitialSensorData)
    /\ origin = (0 :> [k \in DOMAIN InitialSensorData |-> 0])
    /\ current_data = None
    /\ sensor_data = 0
    /\ data_queue = <<>>
    /\ since_csv = 0
    /\ socket_open = TRUE
    /\ sensors_connected = FALSE
    /\ cycle_outcome = <<>>
    /\ faults = 0
    /\ connect_called = FALSE
    /\ csv_dir = <<>>
    /\ last_values = <<>>
    /\ last_update_age = <<>>
    /\ since_write = 0
    /\ writer_pc = "run"
    /\ consumed = <<>>
    /\ row_source = None
    /\ write_result = "none"
    /\ writer_wait = 0
    /\ writer_logged = FALSE
    /\ io_faults = 0
    /\ captured_day = <<>>
    /\ pass_idx = 0
    /\ pass_log = <<>>
    /\ after_pending = {1}
    /\ timer_id = Some(1)
    /\ packed = {2}
    /\ absent_date = None
    /\ running = FALSE
    /\ main_pc = "construct"
    /\ shutdown_pos = 0
    /\ shutdown_trace = <<>>
    /\ bus_calls = {}
    /\ carried = <<>>
    /\ wall_seconds = 0
    /\ time_steps = 0
    /\ toggle_time_start = 0
    /\ current_display = "none"
    /\ apps = <<>>
    /\ checked = FALSE
    /\ state_labels = <<>>
    /\ refreshed = FALSE
    /\ last_key = "none"
    /\ gui_before = 1
    /\ timer_before = FALSE
    /\ armed_interval = gui2_toggle_interval
    /\ no_rain_counter = 0
    /\ today = 0
    /\ clock_steps = 0
    /\ last_rain_reset_day = None
    /\ daily_rain_total = None
    /\ last_rain_value = 0
    /\ rain_file = <<>>
    /\ rain_ret = None
    /\ rain_arg = None
    /\ rain_calls = 0
    /\ prev_date = None
    /\ store_result = "none"
    /\ ex_pos = 0
    /\ fn_program = "awos"
    /\ fn_name = "aqi"
    /\ fn_arg = None
    /\ fn_called = TRUE
    /\ fn_value = None
    /\ fn_state = <<"", "">>
    /\ wd_program = "awos"
    /\ wd_res = BusError
    /\ wd_called = TRUE
    /\ wd_data = None

\* The running station: the worker keeps cycling, time passes, and pending
\* timers fire; nothing obliges the operator to press a key.
SpecStation ==
    /\ StationInit
    /\ [][StationNext]_vars
    /\ WF_vars(AcquireCycle)
    /\ WF_vars(StationClock)
    /\ WF_vars(ToggleTimerFires)
    /\ WF_vars(TimerUpdate)

----------------------------------------------------------------------------
\* Claims about the running station (checked under SpecStation)

\* C5: whenever the calendar day changes while the station runs and rainfall
\* reads keep succeeding, a row for the day that ended is eventually appended
\* to the daily rainfall totals record, with no operator action. Stated in its
\* weakest form: once a day boundary has passed, the record eventually holds
\* at least one row.
C5_EventualFlush == [](clock_steps > 0 => <>(Len(rain_file) > 0))

----------------------------------------------------------------------------
\* The persistence worker: csv_writer_loop

\* awos.py's writer: seconds between two rows, and seconds after which a value
\* that no snapshot has refreshed is stale.
WRITE_INTERVAL == 30
DATA_TIMEOUT == 60

\* The header row the program's writer defines.
header(program) ==
    IF program = "awos"
    THEN <<"timestamp", "date", "time", "day", "temperature", "humidity",
           "humidity_state_value", "wind_speed", "wind_direction",
           "wind_direction_cardinal", "uv", "uv_state_value", "aqi",
           "aqi_state_value", "pressure", "rain">>
    ELSE <<"timestamp", "temperature", "humidity", "pressure", "uv_index", "co2",
           "formaldehyde", "tvoc", "pm2_5", "pm10", "aqi_temperature",
           "aqi_humidity", "wind_speed", "wind_dir_degrees", "wind_dir_cardinal",
           "rainfall">>

\* The name weather_data.csv, which carries no date; weather_data_<date>.csv
\* is known by the number of its day.
Undated == -1

\* csv_file: awos.py keeps the one file weather_data.csv; multi_awos.py and
\* awos_new.py name the file after the day.
csv_file(program, day) == IF program = "awos" THEN Undated ELSE day

\* data.get(key, ''): csv.writer writes '' and None alike as an empty cell,
\* which is None here.
dict_get(data, key) == IF key \in DOMAIN data THEN data[key] ELSE None

\* The list handed to writer.writerow: one cell per column of the header.
csv_row(program, data) ==
    [i \in DOMAIN header(program) |-> dict_get(data, header(program)[i])]

\* open(csv_file, 'w') followed by writer.writerow(header).
new_file(program) == [header |-> Some(header(program)), rows |-> <<>>]

\* open(csv_file, 'a') followed by writer.writerow(row); 'a' creates a file
\* that is not there, without a header.
append_row(dir, name, row) ==
    IF name \in DOMAIN dir
    THEN [dir EXCEPT ![name].rows = Append(@, row)]
    ELSE dir @@ (name :> [header |-> None, rows |-> <<row>>])

\* cleanup_old_csv on day: the files named weather_data_<date>.csv whose date
\* lies more than 7 days back are removed.
cleanup_old_csv(dir, day) ==
    LET kept == {n \in DOMAIN dir : n = Undated \/ day - n <= 7}
    IN [n \in kept |-> dir[n]]

\* What a file operation does: it succeeds, raises PermissionError, or raises
\* another OSError.
IoResults == {"ok", "permission", "error"}

\* A variant in which an exception raised by a write ends the worker.
csv_writer_reraise(program, exc) == <<"exited", 0>>

\* The handlers around the write, as <<where the worker goes on, seconds it
\* waits first>>: awos.py has `except PermissionError` (log, sleep 5) before
\* `except Exception` (log); the other two have `except Exception` (log) only.
csv_writer_except(program, exc) ==
    IF program = "awos" /\ exc = "permission" THEN <<"run", 5>> ELSE <<"run", 0>>

\* A variant that takes the snapshot queued last.
queue_get_newest(q) == <<q[Len(q)], SubSeq(q, 1, Len(q) - 1)>>

\* data_queue.get(): queue.Queue hands out the item that was put first; the
\* result is <<the item, the queue that is left>>.
queue_get(q) == <<Head(q), Tail(q)>>

\* datetime.now().isoformat() as the writer reads it: a time of the writer's
\* own, which no snapshot carries (snapshots are stamped 1, 2, ...).
WriterNow == Some(0)

\* A variant that names the file after the day of the snapshot's timestamp.
file_day_of_capture(now, captured) == captured

\* current_date = datetime.now().strftime('%Y-%m-%d'), taken after the get:
\* the day in the file's name is the writer's, not the snapshot's.
file_day(now, captured) == now

\* multi_awos.py and awos_new.py, one iteration that gets a snapshot: the file
\* of the day is created with its header if it is not there, and then the old
\* files are cleaned up; the row is appended. Any exception is logged.
WriterDated ==
    /\ script \in {"multi", "new"}
    /\ writer_pc = "run"
    /\ data_queue /= <<>>
    /\ \E create \in IoResults, clean \in {"ok", "error"}, append \in IoResults :
         LET data == heap[queue_get(data_queue)[1]]
             name == csv_file(script, file_day(today,
                                              captured_day[queue_get(data_queue)[1]]))
             exists == name \in DOMAIN csv_dir
             create_failed == ~exists /\ create /= "ok"
             clean_failed == ~exists /\ create = "ok" /\ clean /= "ok"
             append_failed == ~create_failed /\ append /= "ok"
             created == IF exists THEN csv_dir
                        ELSE csv_dir @@ (name :> new_file(script))
             cleaned == IF exists \/ clean_failed THEN created
                        ELSE cleanup_old_csv(created, today)
             exc == IF create_failed THEN create ELSE append
             failures == (IF create_failed THEN 1 ELSE 0)
                         + (IF clean_failed THEN 1 ELSE 0)
                         + (IF append_failed THEN 1 ELSE 0)
             handled == csv_writer_except(script, exc)
         IN /\ exists => (create = "ok" /\ clean = "ok")
            /\ create_failed => (clean = "ok" /\ append = "ok")
            /\ io_faults + failures <= MaxIoFaults
            /\ io_faults' = io_faults + failures
            /\ csv_dir' = IF create_failed THEN csv_dir
                          ELSE IF append_failed THEN cleaned
                          ELSE append_row(cleaned, name, csv_row(script, data))
            /\ write_result' = exc
            /\ writer_pc' = IF exc = "ok" THEN "run" ELSE handled[1]
            /\ writer_wait' = IF exc = "ok" THEN 0 ELSE handled[2]
            /\ writer_logged' = (exc /= "ok" \/ clean_failed)
            /\ row_source' = Some(data)
    /\ data_queue' = queue_get(data_queue)[2]
    /\ consumed' = Append(consumed, queue_get(data_queue)[1])
    /\ captured_day' = Live(captured_day, Range(data_queue) \cup Range(current_data))
    /\ UNCHANGED <<last_values, last_update_age, since_write, carried>>
    /\ UNCHANGED <<script, pc, reader_idx, cycle, heap, origin, current_data,
                   sensor_data, since_csv, socket_open, sensors_connected,
                   cycle_outcome, faults, connect_called>>
    /\ UNCHANGED <<today, clock_steps>>
    /\ UNCHANGED <<rainVars, fnVars, wdVars, stationVars, restVars>>

\* awos.py, one data_queue.get_nowait() of the drain loop that returns a
\* snapshot: the keys the header knows are copied into last_values, and the
\* timestamp is set to now.
WriterGetNowait ==
    /\ script = "awos"
    /\ writer_pc = "run"
    /\ data_queue /= <<>>
    /\ LET data == heap[queue_get(data_queue)[1]]
           keys == (DOMAIN data \cap DOMAIN last_values) \cup {"timestamp"}
       IN /\ last_values' =
                 [k \in DOMAIN last_values |->
                     IF k = "timestamp" THEN WriterNow
                     ELSE IF k \in DOMAIN data THEN data[k] ELSE last_values[k]]
          /\ last_update_age' =
                 [k \in DOMAIN last_update_age |->
                     IF k \in keys THEN 0 ELSE last_update_age[k]]
          /\ row_source' = Some(data)
          /\ carried' = [k \in DOMAIN carried |->
                            IF k \in DOMAIN data THEN data[k] ELSE carried[k]]
    /\ data_queue' = queue_get(data_queue)[2]
    /\ consumed' = Append(consumed, queue_get(data_queue)[1])
    /\ write_result' = "none"
    /\ writer_logged' = FALSE
    /\ writer_wait' = 0
    /\ UNCHANGED <<csv_dir, since_write, writer_pc, io_faults>>
    /\ UNCHANGED <<script, pc, reader_idx, cycle, heap, origin, current_data,
                   sensor_data, since_csv, socket_open, sensors_connected,
                   cycle_outcome, faults, connect_called>>
    /\ UNCHANGED <<clockVars, rainVars, fnVars, wdVars, stationVars, restVars>>

\* awos.py, the rest of the iteration once get_nowait() raises queue.Empty:
\* stale values become None, a row of last_values is appended if
\* WRITE_INTERVAL has elapsed since the last row, and the writer sleeps 1 s
\* (5 s more after a PermissionError). An iteration in which no row is due is
\* taken together with the idle iterations that follow it, up to the one in
\* which the row is due: they change nothing but the two clocks.
WriterFlush ==
    /\ script = "awos"
    /\ writer_pc = "run"
    /\ data_queue = <<>>
    /\ \E append \in IoResults :
         LET fresh == [k \in DOMAIN last_values |->
                          IF k /= "timestamp" /\ last_update_age[k] > DATA_TIMEOUT
                          THEN None ELSE last_values[k]]
             due == since_write >= WRITE_INTERVAL
             name == csv_file(script, today)
             exc == IF due THEN append ELSE "none"
             failed == exc \notin {"none", "ok"}
             handled == csv_writer_except(script, exc)
             slept == IF due THEN 1 + (IF failed THEN handled[2] ELSE 0)
                      ELSE WRITE_INTERVAL - since_write
         IN /\ ~due => append = "ok"
            /\ failed => io_faults < MaxIoFaults
            /\ (exc = "ok" /\ name \in DOMAIN csv_dir) =>
                   Len(csv_dir[name].rows) < MaxRows
            /\ io_faults' = IF failed THEN io_faults + 1 ELSE io_faults
            /\ last_values' = fresh
            /\ csv_dir' = IF exc = "ok"
                          THEN append_row(csv_dir, name, csv_row(script, fresh))
                          ELSE csv_dir
            /\ since_write' = IF exc = "ok" THEN 1
                              ELSE Min(since_write + slept, WRITE_INTERVAL)
            /\ last_update_age' =
                   [k \in DOMAIN last_update_age |->
                       Min(last_update_age[k] + slept, DATA_TIMEOUT + 1)]
            /\ write_result' = exc
            /\ writer_pc' = IF failed THEN handled[1] ELSE "run"
            /\ writer_wait' = IF failed THEN handled[2] ELSE 0
            /\ writer_logged' = failed
    /\ UNCHANGED <<consumed, row_source, carried>>
    /\ UNCHANGED loopVars
    /\ UNCHANGED <<clockVars, rainVars, fnVars, wdVars, stationVars, restVars>>

\* Midnight passes while the two workers run.
PersistClock ==
    /\ clock_steps < MaxMidnights
    /\ DayPasses(1)
    /\ UNCHANGED <<rainVars, fnVars, wdVars, loopVars, stationVars, writerVars, restVars>>

PersistNext ==
    \/ LoopConnect
    \/ LoopBegin
    \/ LoopRead
    \/ LoopPublish
    \/ LoopEnqueue
    \/ SocketCloses
    \/ WriterDated
    \/ WriterGetNowait
    \/ WriterFlush
    \/ PersistClock

\* Both workers started: the acquisition worker as in Init, in a run in which
\* the sensors answer every read that reaches them; the csv directory
\* holds what an earlier run left (awos.py has written its header at the start
\* of csv_writer_loop); last_update_times are all 0, long ago.
PersistInit ==
    /\ script \in Programs
    /\ socket_open \in BOOLEAN
    /\ sensors_connected = (script = "multi" /\ socket_open)
    /\ pc = "top"
    /\ reader_idx = 1
    /\ cycle = 0
    /\ heap = (0 :> InitialSensorData)
    /\ origin = (0 :> [k \in DOMAIN InitialSensorData |-> 0])
    /\ current_data = None
    /\ sensor_data = 0
    /\ data_queue = <<>>
    /\ since_csv = 0
    /\ cycle_outcome = <<>>
    /\ faults = MaxFaults
    /\ connect_called = FALSE
    /\ csv_dir = IF script = "awos"
                 THEN (Undated :> new_file(script))
                 ELSE [n \in OldDays |-> new_file(script)]
    /\ last_values = IF script = "awos"
                     THEN [k \in Range(header(script)) |-> None] ELSE <<>>
    /\ last_update_age = IF script = "awos"
                         THEN [k \in Range(header(script)) |-> DATA_TIMEOUT + 1]
                         ELSE <<>>
    /\ since_write = 0
    /\ writer_pc = "run"
    /\ consumed = <<>>
    /\ row_source = None
    /\ write_result = "none"
    /\ writer_wait = 0
    /\ writer_logged = FALSE
    /\ io_faults = 0
    /\ captured_day = <<>>
    /\ pass_idx = 0
    /\ pass_log = <<>>
    /\ after_pending = {1}
    /\ timer_id = Some(1)
    /\ packed = {2}
    /\ absent_date = None
    /\ running = FALSE
    /\ main_pc = "construct"
    /\ shutdown_pos = 0
    /\ shutdown_trace = <<>>
    /\ bus_calls = {}
    /\ carried = IF script = "awos"
                THEN [k \in Range(header(script)) |-> None] ELSE <<>>
    /\ wall_seconds = 0
    /\ time_steps = 0
    /\ toggle_time_start = 0
    /\ current_display = "none"
    /\ apps = <<>>
    /\ checked = FALSE
    /\ state_labels = <<>>
    /\ refreshed = FALSE
    /\ last_key = "none"
    /\ gui_before = 1
    /\ timer_before = FALSE
    /\ armed_interval = gui2_toggle_interval
    /\ no_rain_counter = 0
    /\ today = StartDay
    /\ clock_steps = 0
    /\ last_rain_reset_day = None
    /\ daily_rain_total = None
    /\ last_rain_value = 0
    /\ rain_file = <<>>
    /\ rain_ret = None
    /\ rain_arg = None
    /\ rain_calls = 0
    /\ prev_date = None
    /\ store_result = "none"
    /\ ex_pos = 0
    /\ fn_program = "awos"
    /\ fn_name = "aqi"
    /\ fn_arg = None
    /\ fn_called = TRUE
    /\ fn_value = None
    /\ fn_state = <<"", "">>
    /\ wd_program = "awos"
    /\ wd_res = BusError
    /\ wd_called = TRUE
    /\ wd_data = None
    /\ current_gui = 2
    /\ toggle_timer = TRUE
    /\ update_timer = FALSE
    /\ display_error = TRUE

\* The two workers running side by side, with the bus and the file system
\* failing now and then and midnight passing.
SpecPersist == PersistInit /\ [][PersistNext]_vars

QueueNext ==
    \/ LoopConnect
    \/ LoopBegin
    \/ LoopRead
    \/ LoopPublish
    \/ LoopEnqueue
    \/ SocketCloses
    \/ WriterDated
    \/ WriterGetNowait
    \/ WriterFlush

\* Both workers started as in PersistInit, in a run in which every file
\* operation succeeds.
QueueInit ==
    /\ script \in Programs
    /\ socket_open \in BOOLEAN
    /\ sensors_connected = (script = "multi" /\ socket_open)
    /\ pc = "top"
    /\ reader_idx = 1
    /\ cycle = 0
    /\ heap = (0 :> InitialSensorData)
    /\ origin = (0 :> [k \in DOMAIN InitialSensorData |-> 0])
    /\ current_data = None
    /\ sensor_data = 0
    /\ data_queue = <<>>
    /\ since_csv = 0
    /\ cycle_outcome = <<>>
    /\ faults = MaxFaults
    /\ connect_called = FALSE
    /\ csv_dir = IF script = "awos"
                 THEN (Undated :> new_file(script))
                 ELSE [n \in OldDays |-> new_file(script)]
    /\ last_values = IF script = "awos"
                     THEN [k \in Range(header(script)) |-> None] ELSE <<>>
    /\ last_update_age = IF script = "awos"
                         THEN [k \in Range(header(script)) |-> DATA_TIMEOUT + 1]
                         ELSE <<>>
    /\ since_write = 0
    /\ writer_pc = "run"
    /\ consumed = <<>>
    /\ row_source = None
    /\ write_result = "none"
    /\ writer_wait = 0
    /\ writer_logged = FALSE
    /\ io_faults = MaxIoFaults
    /\ captured_day = <<>>
    /\ pass_idx = 0
    /\ pass_log = <<>>
    /\ after_pending = {1}
    /\ timer_id = Some(1)
    /\ packed = {2}
    /\ absent_date = None
    /\ running = FALSE
    /\ main_pc = "construct"
    /\ shutdown_pos = 0
    /\ shutdown_trace = <<>>
    /\ bus_calls = {}
    /\ carried = IF script = "awos"
                THEN [k \in Range(header(script)) |-> None] ELSE <<>>
    /\ wall_seconds = 0
    /\ time_steps = 0
    /\ toggle_time_start = 0
    /\ current_display = "none"
    /\ apps = <<>>
    /\ checked = FALSE
    /\ state_labels = <<>>
    /\ refreshed = FALSE
    /\ last_key = "none"
    /\ gui_before = 1
    /\ timer_before = FALSE
    /\ armed_interval = gui2_toggle_interval
    /\ no_rain_counter = 0
    /\ today = StartDay
    /\ clock_steps = 0
    /\ last_rain_reset_day = None
    /\ daily_rain_total = None
    /\ last_rain_value = 0
    /\ rain_file = <<>>
    /\ rain_ret = None
    /\ rain_arg = None
    /\ rain_calls = 0
    /\ prev_date = None
    /\ store_result = "none"
    /\ ex_pos = 0
    /\ fn_program = "awos"
    /\ fn_name = "aqi"
    /\ fn_arg = None
    /\ fn_called = TRUE
    /\ fn_value = None
    /\ fn_state = <<"", "">>
    /\ wd_program = "awos"
    /\ wd_res = BusError
    /\ wd_called = TRUE
    /\ wd_data = None
    /\ current_gui = 2
    /\ toggle_timer = TRUE
    /\ update_timer = FALSE
    /\ display_error = TRUE

\* The two workers and the queue between them: the writer thread is scheduled
\* again and again, so a step it can take is taken.
SpecQueue ==
    /\ QueueInit
    /\ [][QueueNext]_vars
    /\ WF_vars(WriterDated)
    /\ WF_vars(WriterGetNowait)
    /\ WF_vars(WriterFlush)

----------------------------------------------------------------------------
\* Claims about the persistence worker (checked under SpecPersist, the queue's
\* discipline under SpecQueue)

\* A step of the writer that appends a row with no file operation failing.
RowWritten == write_result' = "ok" /\ ~writer_logged' /\ csv_dir' /= csv_dir

C16_Step ==
    RowWritten =>
        LET name == today
        IN /\ name \in DOMAIN csv_dir'
           /\ csv_dir'[name].header = Some(header(script))
           /\ Len(csv_dir'[name].rows) =
                  (IF name \in DOMAIN csv_dir THEN Len(csv_dir[name].rows) ELSE 0) + 1
           /\ DOMAIN csv_dir' =
                  IF name \in DOMAIN csv_dir THEN DOMAIN csv_dir
                  ELSE {n \in DOMAIN csv_dir : today - n <= 7} \cup {name}
           /\ \A n \in DOMAIN csv_dir' \ {name} : csv_dir'[n] = csv_dir[n]

\* C16: every write goes to the dated file of the current day: the first write
\* of the day creates it with the header row and removes the dated files more
\* than 7 days old, keeping the others; later writes append to it.
C16_OneDatedFilePerDay == [][C16_Step]_vars

\* The columns a row takes from the snapshot.
SnapshotColumns ==
    {"timestamp", "temperature", "humidity", "pressure", "uv_index", "wind_speed",
     "wind_dir_degrees", "wind_dir_cardinal", "rainfall"}

C17_Step ==
    RowWritten =>
        LET file == csv_dir'[csv_file(script, today)]
            row == file.rows[Len(file.rows)]
            columns == header(script)
        IN /\ row_source' /= None
           /\ \A k \in SnapshotColumns :
                  \E i \in DOMAIN columns :
                      /\ columns[i] = k
                      /\ row[i] = dict_get(Val(row_source'), k)

\* C17: every row appended carries, each under its column of the header, the
\* timestamp, temperature, humidity, pressure, uv_index, wind_speed,
\* wind_dir_degrees, wind_dir_cardinal and rainfall of the snapshot dequeued
\* for it, a cell being empty only where the snapshot has no value.
C17_RowCarriesSnapshot == [][C17_Step]_vars

\* The snapshots that have been in the queue, in the order of their passage.
Passed == consumed \o data_queue

C18_Step ==
    \/ /\ data_queue' = data_queue
       /\ consumed' = consumed
    \/ /\ consumed' = consumed
       /\ Len(data_queue') = Len(data_queue) + 1
       /\ SubSeq(data_queue', 1, Len(data_queue)) = data_queue
    \/ /\ data_queue /= <<>>
       /\ consumed' = Append(consumed, Head(data_queue))
       /\ data_queue' = Tail(data_queue)

\* C18: the queue is a FIFO between the two workers: every step either leaves
\* it alone, puts one snapshot at its end or takes the one at its front; the
\* snapshots are consumed in the order of their creation, none of them twice;
\* and every queued snapshot is eventually dequeued.
C18_Fifo ==
    /\ [][C18_Step]_vars
    /\ [](\A i, j \in DOMAIN Passed : i < j => Passed[i] < Passed[j])
    /\ \A id \in 1 .. MaxCycles :
           (id \in Range(data_queue)) ~> (id \in Range(consumed))

C18_Witness == Len(consumed) >= 2 /\ data_queue /= <<>>

\* C19: after a write that failed, the failure has been logged and the writer
\* is still in its loop; after a permission failure it has also waited 5 s.
C19_BackOff ==
    write_result \in {"permission", "error"} =>
        /\ writer_logged
        /\ writer_pc = "run"
        /\ write_result = "permission" => writer_wait = 5

C30_Step ==
    (script = "awos" /\ RowWritten) =>
        LET file == csv_dir'[csv_file(script, today)]
            row == file.rows[Len(file.rows)]
            columns == header(script)
        IN /\ since_write >= WRITE_INTERVAL
           /\ \A i \in DOMAIN columns :
                 row[i] = IF /\ columns[i] /= "timestamp"
                             /\ last_update_age[columns[i]] > DATA_TIMEOUT
                          THEN None
                          ELSE carried[columns[i]]

\* C30: awos.py's writer appends a row once 30 s have passed since the last
\* one, whether or not a snapshot arrived; the row holds in each column the
\* value of the most recently dequeued snapshot that carried that column, and
\* None in every column other than the timestamp that no dequeued snapshot
\* refreshed within the last 60 s.
C30_RowEveryInterval == [][C30_Step]_vars

----------------------------------------------------------------------------
\* The rainfall reset logic of multi_awos.py and awos_new.py

\* config['gui']['rain_reset_threshold'] = 0.1, in tenths of a millimetre
rain_reset_threshold == 1

\* config['gui']['rain_reset_time']
rain_reset_time == 12

\* Largest number of process_rainfall calls followed.
MaxResetCalls == 13

\* Readings the gauge reports (register / 10.0, in tenths of a millimetre).
ResetInputs == {0, 2, 3, 10}

\* The tenths n below 4.0 mm for which the double (n + 1) / 10.0 - n / 10.0 is
\* smaller than the double 0.1: 0.3 - 0.2 is 0.09999999999999998.
FloatShortTenths == {2, 4, 5, 6, 8, 9, 11, 13, 16, 18, 22, 27, 32, 37}

\* abs(current_rain - self.last_rain_value) < self.rain_reset_threshold, on
\* the doubles of two readings a / 10.0 and b / 10.0
within_threshold(a, b) ==
    \/ Abs(a - b) < rain_reset_threshold
    \/ Abs(a - b) = rain_reset_threshold /\ Min(a, b) \in FloatShortTenths

\* process_rainfall without the else branch that restarts the count.
process_rainfall_multi_keep_count(last, counter, current_rain) ==
    IF current_rain = None
    THEN [ret |-> None, last |-> last, counter |-> counter]
    ELSE LET r == Val(current_rain)
             near == within_threshold(r, last)
             reset == near /\ counter + 1 >= rain_reset_time
             out == IF reset THEN 0 ELSE r
         IN [ret |-> Some(out), last |-> out,
             counter |-> IF reset THEN 0 ELSE IF near THEN counter + 1 ELSE counter]

\* process_rainfall(current_rain) of multi_awos.py and awos_new.py, on the
\* attributes last_rain_value and no_rain_counter.
process_rainfall_multi(last, counter, current_rain) ==
    IF current_rain = None
    THEN [ret |-> None, last |-> last, counter |-> counter]
    ELSE LET r == Val(current_rain)
             near == within_threshold(r, last)
             reset == near /\ counter + 1 >= rain_reset_time
             out == IF reset THEN 0 ELSE r
         IN [ret |-> Some(out), last |-> out,
             counter |-> IF near /\ ~reset THEN counter + 1 ELSE 0]

CallProcessRainfallMulti ==
    /\ rain_calls < MaxResetCalls
    /\ \E current_rain \in {None} \cup {Some(v) : v \in ResetInputs} :
          LET s == process_rainfall_multi(last_rain_value, no_rain_counter,
                                          current_rain)
          IN /\ rain_ret' = s.ret
             /\ last_rain_value' = s.last
             /\ no_rain_counter' = s.counter
             /\ rain_arg' = current_rain
    /\ rain_calls' = rain_calls + 1
    /\ UNCHANGED <<last_rain_reset_day, daily_rain_total, rain_file, prev_date,
                   store_result, ex_pos, absent_date>>
    /\ UNCHANGED <<clockVars, fnVars, wdVars, loopVars, stationVars, writerVars,
                   labelVars, managerVars, lifeVars>>

ResetNext == CallProcessRainfallMulti

ResetInit ==
    /\ fn_program = "awos"
    /\ fn_name = "aqi"
    /\ fn_arg = None
    /\ fn_called = TRUE
    /\ fn_value = None
    /\ fn_state = NotCalled
    /\ wd_program = "awos"
    /\ wd_res = BusError
    /\ wd_called = TRUE
    /\ wd_data = None
    /\ today = 0
    /\ clock_steps = 0
    /\ last_rain_reset_day = None
    /\ daily_rain_total = None
    /\ last_rain_value = 0
    /\ rain_file = <<>>
    /\ rain_ret = None
    /\ rain_arg = None
    /\ rain_calls = 0
    /\ prev_date = None
    /\ store_result = "none"
    /\ ex_pos = 0
    /\ script = "multi"
    /\ pc = "top"
    /\ reader_idx = 1
    /\ cycle = 0
    /\ heap = <<>>
    /\ origin = <<>>
    /\ current_data = None
    /\ sensor_data = 0
    /\ data_queue = <<>>
    /\ since_csv = 0
    /\ socket_open = FALSE
    /\ sensors_connected = FALSE
    /\ cycle_outcome = <<>>
    /\ faults = 0
    /\ connect_called = FALSE
    /\ csv_dir = <<>>
    /\ last_values = <<>>
    /\ last_update_age = <<>>
    /\ since_write = 0
    /\ writer_pc = "run"
    /\ consumed = <<>>
    /\ row_source = None
    /\ write_result = "none"
    /\ writer_wait = 0
    /\ writer_logged = FALSE
    /\ io_faults = 0
    /\ captured_day = <<>>
    /\ pass_idx = 0
    /\ pass_log = <<>>
    /\ after_pending = {1}
    /\ timer_id = Some(1)
    /\ packed = {2}
    /\ absent_date = None
    /\ running = FALSE
    /\ main_pc = "construct"
    /\ shutdown_pos = 0
    /\ shutdown_trace = <<>>
    /\ bus_calls = {}
    /\ carried = <<>>
    /\ wall_seconds = 0
    /\ time_steps = 0
    /\ toggle_time_start = 0
    /\ current_display = "none"
    /\ apps = <<>>
    /\ checked = FALSE
    /\ state_labels = <<>>
    /\ refreshed = FALSE
    /\ last_key = "none"
    /\ gui_before = 1
    /\ timer_before = FALSE
    /\ armed_interval = gui2_toggle_interval
    /\ no_rain_counter = 0
    /\ current_gui = 2
    /\ toggle_timer = TRUE
    /\ update_timer = FALSE
    /\ display_error = TRUE

\* The process_rainfall calls of one run of multi_awos.py or awos_new.py.
SpecReset == ResetInit /\ [][ResetNext]_vars

----------------------------------------------------------------------------
\* Claims about the rainfall reset logic (checked under SpecReset)

C28_Step ==
    (rain_calls' = rain_calls + 1 /\ rain_arg' /= None) =>
        LET r == Val(rain_arg')
            near == within_threshold(r, last_rain_value)
        IN IF near /\ no_rain_counter + 1 >= rain_reset_time
           THEN /\ rain_ret' = Some(0)
                /\ last_rain_value' = 0
                /\ no_rain_counter' = 0
           ELSE /\ rain_ret' = Some(r)
                /\ last_rain_value' = r
                /\ no_rain_counter' = IF near THEN no_rain_counter + 1 ELSE 0

\* C28: process_rainfall of multi_awos.py and awos_new.py returns a present
\* reading unchanged and stores it as last value, except on the call at which
\* the count of consecutive calls whose reading differs from the stored last
\* value by less than rain_reset_threshold reaches rain_reset_time: that call
\* returns 0, stores 0 and restarts the count.  A call whose reading differs
\* by the threshold or more restarts the count.
C28_ResetAfterQuietCalls == [][C28_Step]_vars

\* The twelfth quiet call in a row was made with the reading 0.3 mm and
\* returned 0.
C28_Witness ==
    /\ rain_calls >= rain_reset_time
    /\ rain_arg = Some(3) /\ rain_ret = Some(0)
    /\ last_rain_value = 0 /\ no_rain_counter = 0

----------------------------------------------------------------------------
\* Claims about the display of awos.py (checked under SpecStation)

\* C24: in awos.py each run of update_display updates the widgets of the GUI
\* that is shown and re-arms itself, so from startup on the last run has
\* succeeded and the next one is scheduled.
C24_RefreshKeepsRunning == update_timer /\ ~display_error

\* C26: after Tab the display other than the one shown when the key was
\* pressed is shown, and the toggle timer is armed with the interval of the
\* display now shown.
C26_TabSwitches ==
    last_key = "Tab" =>
        /\ current_gui /= gui_before
        /\ toggle_timer
        /\ armed_interval = IF current_gui = 1 THEN gui1_toggle_interval
                            ELSE gui2_toggle_interval

\* C27: after space pressed with a toggle pending no toggle is pending and
\* the shown display is the same; after space pressed while paused a toggle is
\* pending again, from the shown display.
C27_SpacePausesAndResumes ==
    last_key = "space" =>
        /\ current_gui = gui_before
        /\ toggle_timer = ~timer_before

\* C32: in awos.py at most one toggle_gui callback is pending at every moment,
\* whatever the interleaving of automatic toggles, Tab presses and space
\* presses, and the canvas that is packed is exactly the one named by
\* current_gui, which is 1 or 2.
C32_OneTimerOneCanvas ==
    /\ Cardinality(after_pending) <= 1
    /\ current_gui \in {1, 2}
    /\ packed = {current_gui}

\* GUI-1 is shown after an automatic toggle, and a second space press has
\* found the rotation paused: no callback is pending.
C32_Witness ==
    /\ current_gui = 1
    /\ last_key = "space"
    /\ ~timer_before
    /\ after_pending = {}
    /\ packed = {1}

----------------------------------------------------------------------------
\* The display refresh and the state labels (awos.py, multi_awos.py)

\* The snapshot key each state label is derived from.
LabelKey == [humidity |-> "humidity", uv |-> "uv_index", aqi |-> "pm2_5"]

\* The text the state labels are created with: awos.py's placeholders, and
\* "--" for every widget of multi_awos.py.
InitialLabels(program) ==
    IF program = "awos"
    THEN [humidity |-> "NORMAL", uv |-> "HIGH", aqi |-> "UNHEALTHY"]
    ELSE [humidity |-> "--", uv |-> "--", aqi |-> "--"]

\* if data: current_data.update(data)
merge_reader(d, data) == IF data = None THEN d ELSE DictUpdate(d, Val(data))

RECURSIVE read_sensors(_, _, _, _, _)
\* The for loop over the readers, merging what each one returns.
read_sensors(program, d, res, file, k) ==
    IF k > Len(Sensors) THEN d
    ELSE read_sensors(program,
                      merge_reader(d, call_reader(program, Sensors[k],
                                                  res[Sensors[k]], file)),
                      res, file, k + 1)

\* The dict one iteration of sensor_reader_loop publishes: the readers' data,
\* or in multi_awos.py without sensors the placeholders and the file's data.
worker_snapshot(program, c, connected, res, file) ==
    IF program = "multi" /\ ~connected
    THEN merge_reader(DictUpdate(fresh_dict(c), Placeholders),
                      read_aqi_sensor(program, file))
    ELSE read_sensors(program, fresh_dict(c), res, file, 1)

\* The label a state display gets for a value that is present.
state_of(program, name, value) ==
    IF name = "humidity" THEN get_humidity_state(program, value)[1]
    ELSE IF name = "uv" THEN get_uv_state(program, value)[1]
    ELSE get_aqi_state(program, calculate_aqi(value))[1]

\* update_state_displays of multi_awos.py: each label is set from the value
\* or, in the else branch, to "N/A".
update_state_displays(data) ==
    [name \in DOMAIN LabelKey |->
        IF Get(data, LabelKey[name]) /= None
        THEN state_of("multi", name, Get(data, LabelKey[name]))
        ELSE "N/A"]

\* update_gui1_widgets / update_gui2_widgets of awos.py: the labels of the
\* display that is shown are set only 'if value is not None'.
update_gui_widgets(labels, data, gui) ==
    [name \in DOMAIN LabelKey |->
        IF (name = "humidity") = (gui = 1) /\ Get(data, LabelKey[name]) /= None
        THEN state_of("awos", name, Get(data, LabelKey[name]))
        ELSE labels[name]]

\* The 'wind_speed' parser of multi_awos.py, data.get('wind_speed', 0.0) * 3.6,
\* raises TypeError when the key is there with the value None.
wind_speed_parser_raises(data) ==
    "wind_speed" \in DOMAIN data /\ data["wind_speed"] = None

\* update_display of multi_awos.py: the parsers run in the order of
\* sensor_configs ('wind_speed' before 'rain'), then update_state_displays;
\* an exception ends the try block; root.after follows the try block.
MultiUpdateDisplay ==
    LET data == heap[sensor_data]
    IN /\ IF wind_speed_parser_raises(data)
          THEN /\ display_error' = TRUE
               /\ UNCHANGED <<state_labels, last_rain_value, no_rain_counter, rain_ret>>
          ELSE LET s == process_rainfall_multi(last_rain_value, no_rain_counter,
                                               Get(data, "rainfall"))
               IN /\ display_error' = FALSE
                  /\ state_labels' = update_state_displays(data)
                  /\ last_rain_value' = s.last
                  /\ no_rain_counter' = s.counter
                  /\ rain_ret' = s.ret
       /\ update_timer' = TRUE
       /\ UNCHANGED <<last_rain_reset_day, daily_rain_total, rain_file, rain_arg,
                      rain_calls, prev_date, store_result, ex_pos,
                      absent_date>>

\* update_display of awos.py, with the labels its widget updates set.
AwosUpdateDisplay ==
    /\ UpdateDisplay
    /\ state_labels' = IF {"day", "date", "time"} \subseteq common_widgets
                       THEN update_gui_widgets(state_labels, heap[sensor_data],
                                               current_gui)
                       ELSE state_labels
    /\ UNCHANGED no_rain_counter

\* A run of update_display.
RefreshDisplay ==
    /\ IF script = "awos" THEN AwosUpdateDisplay ELSE MultiUpdateDisplay
    /\ refreshed' = TRUE
    /\ UNCHANGED <<pass_idx, pass_log>>
    /\ UNCHANGED <<current_gui, toggle_timer, last_key, gui_before, timer_before,
                   armed_interval, after_pending, timer_id, packed>>
    /\ UNCHANGED <<clockVars, fnVars, wdVars, loopVars, writerVars, managerVars,
                   lifeVars>>

\* One iteration of the worker, publishing its snapshot: the environment read
\* and the air-quality file may fail, the other reads succeed.
PublishSnapshot ==
    /\ \E connected \in (IF script = "multi" THEN BOOLEAN ELSE {TRUE}),
          env \in {BusOk(SampleRegisters("environment")), BusError},
          file \in {AqiFileAbsent, AqiFileRow(SampleAqiRow)} :
         LET id == 1 - sensor_data
             res == [n \in Range(Sensors) |->
                        IF n = "environment" THEN env
                        ELSE BusOk(SampleRegisters(n))]
         IN /\ heap' = (id :> worker_snapshot(script, today, connected, res, file))
            /\ origin' = (id :> [k \in DOMAIN heap'[id] |-> today])
            /\ sensor_data' = id
            /\ current_data' = Some(id)
            /\ sensors_connected' = connected
    /\ refreshed' = FALSE
    /\ UNCHANGED <<state_labels, pass_idx, pass_log>>
    /\ UNCHANGED <<script, pc, reader_idx, cycle, data_queue, since_csv, socket_open,
                   cycle_outcome, faults, connect_called>>
    /\ UNCHANGED <<clockVars, rainVars, fnVars, wdVars, stationVars, writerVars,
                   resetVars, managerVars, lifeVars>>

RefreshNext == PublishSnapshot \/ RefreshDisplay

\* After construction: the widgets hold their initial text, sensor_data is the
\* dict of init_data_structures, and no refresh has succeeded.
RefreshInit ==
    /\ script \in {"awos", "multi"}
    /\ state_labels = InitialLabels(script)
    /\ refreshed = FALSE
    /\ current_gui = 2
    /\ toggle_timer = TRUE
    /\ update_timer = FALSE
    /\ display_error = FALSE
    /\ last_key = "none"
    /\ gui_before = 1
    /\ timer_before = FALSE
    /\ armed_interval = gui2_toggle_interval
    /\ pc = "top"
    /\ reader_idx = 1
    /\ cycle = 0
    /\ heap = (0 :> InitialSensorData)
    /\ origin = (0 :> [k \in DOMAIN InitialSensorData |-> 0])
    /\ current_data = None
    /\ sensor_data = 0
    /\ data_queue = <<>>
    /\ since_csv = 0
    /\ socket_open = TRUE
    /\ sensors_connected = FALSE
    /\ cycle_outcome = <<>>
    /\ faults = 0
    /\ connect_called = FALSE
    /\ csv_dir = <<>>
    /\ last_values = <<>>
    /\ last_update_age = <<>>
    /\ since_write = 0
    /\ writer_pc = "run"
    /\ consumed = <<>>
    /\ row_source = None
    /\ write_result = "none"
    /\ writer_wait = 0
    /\ writer_logged = FALSE
    /\ io_faults = 0
    /\ captured_day = <<>>
    /\ pass_idx = 0
    /\ pass_log = <<>>
    /\ after_pending = {1}
    /\ timer_id = Some(1)
    /\ packed = {2}
    /\ absent_date = None
    /\ running = FALSE
    /\ main_pc = "construct"
    /\ shutdown_pos = 0
    /\ shutdown_trace = <<>>
    /\ bus_calls = {}
    /\ carried = <<>>
    /\ wall_seconds = 0
    /\ time_steps = 0
    /\ toggle_time_start = 0
    /\ current_display = "none"
    /\ apps = <<>>
    /\ checked = FALSE
    /\ no_rain_counter = 0
    /\ today = 0
    /\ clock_steps = 0
    /\ last_rain_reset_day = None
    /\ daily_rain_total = None
    /\ last_rain_value = 0
    /\ rain_file = <<>>
    /\ rain_ret = None
    /\ rain_arg = None
    /\ rain_calls = 0
    /\ prev_date = None
    /\ store_result = "none"
    /\ ex_pos = 0
    /\ fn_program = "awos"
    /\ fn_name = "aqi"
    /\ fn_arg = None
    /\ fn_called = TRUE
    /\ fn_value = None
    /\ fn_state = NotCalled
    /\ wd_program = "awos"
    /\ wd_res = BusError
    /\ wd_called = TRUE
    /\ wd_data = None

\* The worker publishing snapshots and the display refreshing from them.
SpecRefresh == RefreshInit /\ [][RefreshNext]_vars

----------------------------------------------------------------------------
\* Claims about the state labels (checked under SpecRefresh)

\* C25: after a display refresh made with the latest published snapshot, each
\* of the humidity, UV and AQI state labels whose value (humidity, UV index,
\* PM2.5) the snapshot lacks reads "N/A", whatever other fields are absent.
C25_AbsentReadsNA ==
    refreshed =>
        \A name \in DOMAIN LabelKey :
            Get(heap[sensor_data], LabelKey[name]) = None =>
                state_labels[name] = "N/A"

----------------------------------------------------------------------------
\* The display manager of multi_awos.py (GUIManager)

\* get_sun_info's default {'sunrise': '06:00', 'sunset': '18:00'}, each parsed
\* with '%H:%M' into a time of day, in seconds since midnight.
parse_hm(h, m) == 3600 * h + 60 * m

sunrise == parse_hm(6, 0)

sunset == parse_hm(18, 0)

\* display_configs['day1'] / ['day2']['display_duration'], in seconds
toggle_durations == <<300, 300>>

day_displays == <<"day1", "day2">>

\* Largest number of times the wall clock advances.
MaxTimeSteps == 8

\* Seconds between two steps of the program: the period of the check timer,
\* or a longer stretch.
TimeSteps == {5, 145}

\* Times of day at which the program is started: shortly before sunrise and
\* shortly before sunset.
StartTimes == {21450, 64350}

\* A variant that counts the moment of sunset as daytime.
is_daytime_inclusive(t) == sunrise <= t /\ t <= sunset

\* is_daytime = sunrise <= current_time < sunset
is_daytime(t) == sunrise <= t /\ t < sunset

RECURSIVE current_index_from(_, _, _)
\* The for loop of handle_day_display: the first display whose cumulative
\* duration exceeds the position in the cycle, the first display if none does.
current_index_from(cycle_position, i, cumulative_duration) ==
    IF i > Len(toggle_durations) THEN 1
    ELSE IF cycle_position < cumulative_duration + toggle_durations[i] THEN i
    ELSE current_index_from(cycle_position, i + 1,
                            cumulative_duration + toggle_durations[i])

\* handle_day_display: the display for elapsed seconds since toggle_time_start.
day_display(elapsed) ==
    day_displays[current_index_from(elapsed % (toggle_durations[1] + toggle_durations[2]),
                                    1, 0)]

\* root.winfo_exists() of a display's window
winfo_exists(a, id) == id \in DOMAIN a /\ a[id] /= "destroyed"

\* destroy_current_display: withdraw the window of the current display.
destroy_current_display(a, cur) ==
    IF cur /= "none" /\ winfo_exists(a, cur)
    THEN [a EXCEPT ![cur] = "withdrawn"]
    ELSE a

\* create_display: deiconify the display's window if it exists, otherwise
\* build a new Toplevel with its WeatherStationSystem.
create_display(a, id) ==
    IF winfo_exists(a, id)
    THEN [a EXCEPT ![id] = "shown"]
    ELSE [k \in DOMAIN a \cup {id} |-> IF k = id THEN "shown" ELSE a[k]]

\* handle_night_display / handle_day_display, for the display selected.
switch_display(id) ==
    IF current_display /= id
    THEN /\ current_display' = id
         /\ apps' = create_display(destroy_current_display(apps, current_display), id)
    ELSE UNCHANGED <<current_display, apps>>

\* check_display_time, run by its 5 second timer (and once by __init__).
CheckDisplayTime ==
    /\ ~checked
    /\ IF is_daytime(wall_seconds % 86400)
       THEN switch_display(day_display(wall_seconds - toggle_time_start))
       ELSE switch_display("night")
    /\ checked' = TRUE
    /\ UNCHANGED <<wall_seconds, time_steps, toggle_time_start>>
    /\ UNCHANGED <<clockVars, rainVars, fnVars, wdVars, loopVars, stationVars,
                   writerVars, resetVars, labelVars, lifeVars>>

\* Escape on the display that is shown: WeatherStationSystem.shutdown destroys
\* that window.
PressEscape ==
    /\ \E id \in DOMAIN apps :
          /\ apps[id] = "shown"
          /\ apps' = [apps EXCEPT ![id] = "destroyed"]
    /\ UNCHANGED <<wall_seconds, time_steps, toggle_time_start, current_display,
                   checked>>
    /\ UNCHANGED <<clockVars, rainVars, fnVars, wdVars, loopVars, stationVars,
                   writerVars, resetVars, labelVars, lifeVars>>

\* Time passes.
TimePasses ==
    /\ time_steps < MaxTimeSteps
    /\ \E d \in TimeSteps : wall_seconds' = wall_seconds + d
    /\ time_steps' = time_steps + 1
    /\ checked' = FALSE
    /\ UNCHANGED <<toggle_time_start, current_display, apps>>
    /\ UNCHANGED <<clockVars, rainVars, fnVars, wdVars, loopVars, stationVars,
                   writerVars, resetVars, labelVars, lifeVars>>

ManagerNext == CheckDisplayTime \/ PressEscape \/ TimePasses

\* GUIManager.__init__ up to its call of check_display_time.
ManagerInit ==
    /\ wall_seconds \in StartTimes
    /\ time_steps = 0
    /\ toggle_time_start = wall_seconds
    /\ current_display = "none"
    /\ apps = <<>>
    /\ checked = FALSE
    /\ state_labels = <<>>
    /\ refreshed = FALSE
    /\ script = "multi"
    /\ current_gui = 2
    /\ toggle_timer = TRUE
    /\ update_timer = FALSE
    /\ display_error = FALSE
    /\ last_key = "none"
    /\ gui_before = 1
    /\ timer_before = FALSE
    /\ armed_interval = gui2_toggle_interval
    /\ pc = "top"
    /\ reader_idx = 1
    /\ cycle = 0
    /\ heap = (0 :> InitialSensorData)
    /\ origin = (0 :> [k \in DOMAIN InitialSensorData |-> 0])
    /\ current_data = None
    /\ sensor_data = 0
    /\ data_queue = <<>>
    /\ since_csv = 0
    /\ socket_open = TRUE
    /\ sensors_connected = FALSE
    /\ cycle_outcome = <<>>
    /\ faults = 0
    /\ connect_called = FALSE
    /\ csv_dir = <<>>
    /\ last_values = <<>>
    /\ last_update_age = <<>>
    /\ since_write = 0
    /\ writer_pc = "run"
    /\ consumed = <<>>
    /\ row_source = None
    /\ write_result = "none"
    /\ writer_wait = 0
    /\ writer_logged = FALSE
    /\ io_faults = 0
    /\ captured_day = <<>>
    /\ pass_idx = 0
    /\ pass_log = <<>>
    /\ after_pending = {1}
    /\ timer_id = Some(1)
    /\ packed = {2}
    /\ absent_date = None
    /\ running = FALSE
    /\ main_pc = "construct"
    /\ shutdown_pos = 0
    /\ shutdown_trace = <<>>
    /\ bus_calls = {}
    /\ carried = <<>>
    /\ no_rain_counter = 0
    /\ today = 0
    /\ clock_steps = 0
    /\ last_rain_reset_day = None
    /\ daily_rain_total = None
    /\ last_rain_value = 0
    /\ rain_file = <<>>
    /\ rain_ret = None
    /\ rain_arg = None
    /\ rain_calls = 0
    /\ prev_date = None
    /\ store_result = "none"
    /\ ex_pos = 0
    /\ fn_program = "awos"
    /\ fn_name = "aqi"
    /\ fn_arg = None
    /\ fn_called = TRUE
    /\ fn_value = None
    /\ fn_state = NotCalled
    /\ wd_program = "awos"
    /\ wd_res = BusError
    /\ wd_called = TRUE
    /\ wd_data = None

\* The display manager, the operator's Escape key and the passing of time.
SpecManager == ManagerInit /\ [][ManagerNext]_vars

----------------------------------------------------------------------------
\* Claims about the display manager (checked under SpecManager)

Shown == {id \in DOMAIN apps : apps[id] = "shown"}

\* C29: after every check_display_time, current_display is 'night' when the
\* time of day is outside [sunrise, sunset), and otherwise 'day1' when the
\* elapsed time modulo (duration1 + duration2) is below duration1, 'day2' if
\* not; and at every moment at most one display window is shown.
C29_DisplaySelection ==
    /\ checked =>
          LET t == wall_seconds % 86400
              elapsed == wall_seconds - toggle_time_start
          IN current_display =
                IF t < parse_hm(6, 0) \/ t >= parse_hm(18, 0) THEN "night"
                ELSE IF elapsed % (toggle_durations[1] + toggle_durations[2])
                            < toggle_durations[1]
                THEN "day1" ELSE "day2"
    /\ Cardinality(Shown) <= 1

\* A check at the moment of sunset has put up the night display, with both
\* day displays withdrawn.
C29_Witness ==
    /\ checked /\ wall_seconds = sunset
    /\ current_display = "night"
    /\ apps = [id \in {"night", "day1", "day2"} |->
                  IF id = "night" THEN "shown" ELSE "withdrawn"]

----------------------------------------------------------------------------
\* Start and shutdown: the main thread and the two workers

\* A variant of shutdown that closes the bus before joining the workers.
shutdown_steps_close_first(program) ==
    IF program = "awos"
    THEN <<"flag", "close", "join_sensor", "join_csv", "quit">>
    ELSE <<"gui_flag", "destroy_displays", "flag", "close", "join_sensor",
           "join_csv", "destroy_root">>

\* The statements of shutdown, in order. awos.py, WeatherStationSystem.shutdown:
\* running = False; sensor_thread.join(timeout=2); csv_thread.join(timeout=2);
\* close the bus if connected; root.quit(). multi_awos.py, GUIManager.shutdown:
\* its own flag, the displays, DataManager.stop (the same four statements) and
\* root.destroy().
shutdown_steps(program) ==
    IF program = "awos"
    THEN <<"flag", "join_sensor", "join_csv", "close", "quit">>
    ELSE <<"gui_flag", "destroy_displays", "flag", "join_sensor", "join_csv",
           "close", "destroy_root">>

\* Whether shutdown has closed the bus connection.
bus_closed == \E i \in DOMAIN shutdown_trace : shutdown_trace[i][1] = "close"

\* A call made on the bus client: by which thread, which call, and whether
\* shutdown had closed the connection before it.
bus_call(thread, op) == <<thread, op, bus_closed>>

\* A variant of the loop test that never sees the flag cleared.
loop_test_forever(flag) == TRUE

\* while self.running: the test at the top of each worker's loop.
loop_test(flag) == flag

\* __init__ on the main thread: init_modbus builds the client and calls
\* connect(); awos.py lets an exception of connect() end the program, while
\* multi_awos.py catches it and sets sensors_connected; then the workers start.
Construct ==
    /\ main_pc = "construct"
    /\ \E r \in ConnectResults(FALSE) :
          /\ socket_open' = (r = "ok")
          /\ sensors_connected' = (script = "multi" /\ r = "ok")
          /\ IF script = "awos" /\ r = "raise"
             THEN /\ main_pc' = "crashed"
                  /\ UNCHANGED running
             ELSE /\ main_pc' = "mainloop"
                  /\ running' = TRUE
    /\ bus_calls' = bus_calls \cup {bus_call("main", "connect")}
    /\ UNCHANGED <<shutdown_pos, shutdown_trace>>
    /\ UNCHANGED <<script, pc, reader_idx, cycle, heap, origin, current_data,
                   sensor_data, data_queue, since_csv, cycle_outcome, faults,
                   connect_called>>
    /\ UNCHANGED <<clockVars, rainVars, fnVars, wdVars, stationVars, writerVars,
                   resetVars, labelVars, managerVars>>

\* The top of sensor_reader_loop: the worker leaves the loop when running is
\* False; otherwise awos.py calls connect(), and multi_awos.py calls it when
\* sensors_connected is set and the socket is not open. With a connection the
\* iteration goes on to the reads; without one it ends with its sleep.
WorkerTop ==
    /\ main_pc \notin {"construct", "crashed"}
    /\ pc = "top"
    /\ IF ~loop_test(running)
       THEN /\ pc' = "exited"
            /\ UNCHANGED <<socket_open, sensors_connected, bus_calls>>
       ELSE IF script = "awos" \/ (sensors_connected /\ ~socket_open)
       THEN \E r \in ConnectResults(socket_open) :
               /\ socket_open' = (r = "ok")
               /\ sensors_connected' =
                      IF script = "awos" THEN sensors_connected ELSE r = "ok"
               /\ pc' = IF script = "awos" /\ r = "ok" THEN "read" ELSE "top"
               /\ bus_calls' = bus_calls \cup {bus_call("worker", "connect")}
       ELSE /\ pc' = IF sensors_connected THEN "read" ELSE "top"
            /\ UNCHANGED <<socket_open, sensors_connected, bus_calls>>
    /\ UNCHANGED <<running, main_pc, shutdown_pos, shutdown_trace>>
    /\ UNCHANGED <<script, reader_idx, cycle, heap, origin, current_data,
                   sensor_data, data_queue, since_csv, cycle_outcome, faults,
                   connect_called>>
    /\ UNCHANGED <<clockVars, rainVars, fnVars, wdVars, stationVars, writerVars,
                   resetVars, labelVars, managerVars>>

\* The rest of an iteration: the readers' register reads, the publication of
\* the snapshot and the sleep.
WorkerReads ==
    /\ pc = "read"
    /\ pc' = "top"
    /\ bus_calls' = bus_calls \cup {bus_call("worker", "read")}
    /\ UNCHANGED <<running, main_pc, shutdown_pos, shutdown_trace>>
    /\ UNCHANGED <<script, reader_idx, cycle, heap, origin, current_data,
                   sensor_data, data_queue, since_csv, socket_open,
                   sensors_connected, cycle_outcome, faults, connect_called>>
    /\ UNCHANGED <<clockVars, rainVars, fnVars, wdVars, stationVars, writerVars,
                   resetVars, labelVars, managerVars>>

\* csv_writer_loop at its while test: the writer leaves the loop when running
\* is False, and begins another iteration otherwise.
WriterTop ==
    /\ main_pc \notin {"construct", "crashed"}
    /\ writer_pc = "run"
    /\ writer_pc' = IF ~loop_test(running) THEN "exited" ELSE "busy"
    /\ UNCHANGED <<csv_dir, last_values, last_update_age, since_write, consumed,
                   row_source, write_result, writer_wait, writer_logged, io_faults,
                   carried>>
    /\ UNCHANGED <<clockVars, rainVars, fnVars, wdVars, loopVars, stationVars,
                   resetVars, labelVars, managerVars, lifeVars>>

\* One iteration of csv_writer_loop: every wait in it is finite (get_nowait or
\* get(timeout=1), the file write, sleep(5) after a PermissionError in
\* awos.py, sleep(1)), so the writer comes back to its while test.
WriterIterates ==
    /\ writer_pc = "busy"
    /\ writer_pc' = "run"
    /\ UNCHANGED <<csv_dir, last_values, last_update_age, since_write, consumed,
                   row_source, write_result, writer_wait, writer_logged, io_faults,
                   carried>>
    /\ UNCHANGED <<clockVars, rainVars, fnVars, wdVars, loopVars, stationVars,
                   resetVars, labelVars, managerVars, lifeVars>>

\* Escape or the window's close button while the event loop runs: the next
\* statement of shutdown. A join returns when its worker has ended or when the
\* 2 seconds of its timeout are over, so it can always return.
ShutdownStep ==
    /\ main_pc \in {"mainloop", "shutdown"}
    /\ shutdown_pos < Len(shutdown_steps(script))
    /\ LET step == shutdown_steps(script)[shutdown_pos + 1]
           last == shutdown_pos + 1 = Len(shutdown_steps(script))
           closes == step = "close" /\ socket_open
       IN /\ running' = IF step = "flag" THEN FALSE ELSE running
          /\ socket_open' = IF closes THEN FALSE ELSE socket_open
          /\ apps' = IF step = "destroy_displays"
                     THEN [id \in DOMAIN apps |-> "destroyed"] ELSE apps
          /\ shutdown_trace' = IF step = "close" /\ ~closes THEN shutdown_trace
                               ELSE Append(shutdown_trace, <<step, socket_open>>)
          /\ main_pc' = IF last THEN "done" ELSE "shutdown"
    /\ shutdown_pos' = shutdown_pos + 1
    /\ UNCHANGED bus_calls
    /\ UNCHANGED <<wall_seconds, time_steps, toggle_time_start, current_display,
                   checked>>
    /\ UNCHANGED <<script, pc, reader_idx, cycle, heap, origin, current_data,
                   sensor_data, data_queue, since_csv, sensors_connected,
                   cycle_outcome, faults, connect_called>>
    /\ UNCHANGED <<clockVars, rainVars, fnVars, wdVars, stationVars, writerVars,
                   resetVars, labelVars>>

LifeNext ==
    \/ Construct
    \/ WorkerTop
    \/ WorkerReads
    \/ WriterTop
    \/ WriterIterates
    \/ ShutdownStep

\* The program at the start of __init__.
LifeInit ==
    /\ script \in {"awos", "multi"}
    /\ running = FALSE
    /\ main_pc = "construct"
    /\ shutdown_pos = 0
    /\ shutdown_trace = <<>>
    /\ bus_calls = {}
    /\ wall_seconds = 0
    /\ time_steps = 0
    /\ toggle_time_start = 0
    /\ current_display = IF script = "multi" THEN "night" ELSE "none"
    /\ apps = IF script = "multi" THEN ("night" :> "shown") ELSE <<>>
    /\ checked = FALSE
    /\ state_labels = <<>>
    /\ refreshed = FALSE
    /\ current_gui = 2
    /\ toggle_timer = TRUE
    /\ update_timer = FALSE
    /\ display_error = FALSE
    /\ last_key = "none"
    /\ gui_before = 1
    /\ timer_before = FALSE
    /\ armed_interval = gui2_toggle_interval
    /\ pc = "top"
    /\ reader_idx = 1
    /\ cycle = 0
    /\ heap = (0 :> InitialSensorData)
    /\ origin = (0 :> [k \in DOMAIN InitialSensorData |-> 0])
    /\ current_data = None
    /\ sensor_data = 0
    /\ data_queue = <<>>
    /\ since_csv = 0
    /\ socket_open = FALSE
    /\ sensors_connected = FALSE
    /\ cycle_outcome = <<>>
    /\ faults = 0
    /\ connect_called = FALSE
    /\ csv_dir = <<>>
    /\ last_values = <<>>
    /\ last_update_age = <<>>
    /\ since_write = 0
    /\ writer_pc = "run"
    /\ consumed = <<>>
    /\ row_source = None
    /\ write_result = "none"
    /\ writer_wait = 0
    /\ writer_logged = FALSE
    /\ io_faults = 0
    /\ captured_day = <<>>
    /\ pass_idx = 0
    /\ pass_log = <<>>
    /\ after_pending = {1}
    /\ timer_id = Some(1)
    /\ packed = {2}
    /\ absent_date = None
    /\ carried = <<>>
    /\ no_rain_counter = 0
    /\ today = 0
    /\ clock_steps = 0
    /\ last_rain_reset_day = None
    /\ daily_rain_total = None
    /\ last_rain_value = 0
    /\ rain_file = <<>>
    /\ rain_ret = None
    /\ rain_arg = None
    /\ rain_calls = 0
    /\ prev_date = None
    /\ store_result = "none"
    /\ ex_pos = 0
    /\ fn_program = "awos"
    /\ fn_name = "aqi"
    /\ fn_arg = None
    /\ fn_called = TRUE
    /\ fn_value = None
    /\ fn_state = NotCalled
    /\ wd_program = "awos"
    /\ wd_res = BusError
    /\ wd_called = TRUE
    /\ wd_data = None

\* One run of the program from its start to the end of shutdown.
SpecLife == LifeInit /\ [][LifeNext]_vars

\* The same run with both worker threads scheduled: a worker that can take
\* its next step eventually takes it (every sleep, queue wait and bus read
\* has a timeout). Nothing obliges the operator to shut the program down.
SpecLifeFair ==
    /\ LifeInit
    /\ [][LifeNext]_vars
    /\ WF_vars(WorkerTop)
    /\ WF_vars(WorkerReads)
    /\ WF_vars(WriterTop)
    /\ WF_vars(WriterIterates)

----------------------------------------------------------------------------
\* Claims about start and shutdown (checked under SpecLife)

\* The position of a step in what shutdown has done, 0 if it has not done it.
TracePos(step) ==
    IF \E i \in DOMAIN shutdown_trace : shutdown_trace[i][1] = step
    THEN CHOOSE i \in DOMAIN shutdown_trace : shutdown_trace[i][1] = step
    ELSE 0

Before(a, b) == TracePos(b) > 0 => (TracePos(a) > 0 /\ TracePos(a) < TracePos(b))

\* C21: shutdown clears the running flag, then joins the acquisition worker,
\* then the persistence worker, and closes the bus only after both joins have
\* returned; the bus is closed at most once and only if it is connected.
C21_ShutdownOrder ==
    /\ Before("flag", "join_sensor")
    /\ Before("join_sensor", "join_csv")
    /\ Before("join_csv", "close")
    /\ TracePos("flag") > 0 => ~running
    /\ Cardinality({i \in DOMAIN shutdown_trace : shutdown_trace[i][1] = "close"}) <= 1
    /\ \A i \in DOMAIN shutdown_trace :
          shutdown_trace[i][1] = "close" => shutdown_trace[i][2]

\* Shutdown is through and has closed a connected bus after joins that
\* returned while the acquisition worker was still in its loop.
C21_Witness ==
    /\ main_pc = "done" /\ ~running
    /\ TracePos("close") > 0 /\ ~socket_open
    /\ pc /= "exited"

\* C22: every bus connect and register read is issued by the acquisition
\* worker; none is issued on the main thread, where the display's callbacks
\* and the startup and shutdown handlers run.
C22_BusCallsByWorker == \A c \in bus_calls : c[1] = "worker"

\* With the flag cleared, a worker at its loop test begins no new iteration.
C31_Step ==
    ~running =>
        /\ (pc = "top" /\ pc' /= pc) => pc' = "exited"
        /\ (writer_pc = "run" /\ writer_pc' /= writer_pc) => writer_pc' = "exited"

\* C31: after shutdown has cleared the running flag, the acquisition worker
\* and the persistence worker each end: each tests the flag once per iteration,
\* finishes at most the iteration in progress and leaves its loop.
C31_WorkersTerminate ==
    /\ [][C31_Step]_vars
    /\ (main_pc \in {"shutdown", "done"} /\ ~running) ~>
           (pc = "exited" /\ writer_pc = "exited")

\* Both workers have left their loops after a shutdown that found the
\* acquisition worker inside an iteration when its join returned.
C31_Witness ==
    /\ main_pc = "done"
    /\ pc = "exited"
    /\ writer_pc = "exited"
    /\ \E c \in bus_calls : c[1] = "worker" /\ c[3]

\* C33: once shutdown has closed the bus connection the acquisition worker
\* issues no connect and no register read, in any interleaving of shutdown
\* with a poll cycle that is in progress or sleeping.
C33_NoBusUseAfterClose == \A c \in bus_calls : c[1] = "worker" => ~c[3]

----------------------------------------------------------------------------
\* A display refresh taken apart: the worker may publish between two widgets

\* Number of snapshots the worker publishes.
MaxPublished == 3

\* The widgets update_display of multi_awos.py sets, in order: the entries of
\* sensor_configs, then the three state labels of update_state_displays. Each
\* one evaluates self.data_manager.sensor_data for itself.
pass_widgets ==
    <<"temperature", "humidity", "pressure", "wind_speed", "wind_direction",
      "rain", "uv", "aqi", "humidity_state", "uv_state", "aqi_state">>

\* The state label a widget of update_state_displays sets.
StateLabel ==
    [humidity_state |-> "humidity", uv_state |-> "uv", aqi_state |-> "aqi"]

\* The dict a widget's value is taken from: self.sensor_data, evaluated anew.
pass_source(log, published) == published

\* update_display is called. In awos.py the loop over the common widgets
\* raises KeyError before any sensor widget is set, which ends the pass with
\* no timer armed; in multi_awos.py the pass starts with its first widget.
PassBegin ==
    /\ pass_idx = 0
    /\ pass_log' = <<>>
    /\ IF script = "awos" /\ ~({"day", "date", "time"} \subseteq common_widgets)
       THEN /\ display_error' = TRUE
            /\ update_timer' = FALSE
            /\ refreshed' = TRUE
            /\ UNCHANGED pass_idx
       ELSE /\ pass_idx' = 1
            /\ refreshed' = FALSE
            /\ UNCHANGED <<display_error, update_timer>>
    /\ UNCHANGED state_labels
    /\ UNCHANGED <<current_gui, toggle_timer, last_key, gui_before, timer_before,
                   armed_interval, after_pending, timer_id, packed>>
    /\ UNCHANGED <<clockVars, rainVars, fnVars, wdVars, loopVars, writerVars,
                   resetVars, managerVars, lifeVars>>

\* The next widget of the pass: its parser is applied to the dict read now
\* ('rain' runs process_rainfall), and the widget is set. The TypeError of the
\* 'wind_speed' parser ends the try block; root.after follows it.
PassStep ==
    /\ pass_idx > 0
    /\ LET w == pass_widgets[pass_idx]
           id == pass_source(pass_log, sensor_data)
           data == heap[id]
           raises == w = "wind_speed" /\ wind_speed_parser_raises(data)
           ends == raises \/ pass_idx = Len(pass_widgets)
           s == process_rainfall_multi(last_rain_value, no_rain_counter,
                                       Get(data, "rainfall"))
       IN /\ pass_log' = IF raises THEN pass_log ELSE Append(pass_log, <<w, id>>)
          /\ pass_idx' = IF ends THEN 0 ELSE pass_idx + 1
          /\ display_error' = IF ends THEN raises ELSE display_error
          /\ update_timer' = IF ends THEN TRUE ELSE update_timer
          /\ refreshed' = ends
          /\ state_labels' =
                IF w \in DOMAIN StateLabel
                THEN [state_labels EXCEPT
                        ![StateLabel[w]] = update_state_displays(data)[StateLabel[w]]]
                ELSE state_labels
          /\ last_rain_value' = IF w = "rain" THEN s.last ELSE last_rain_value
          /\ no_rain_counter' = IF w = "rain" THEN s.counter ELSE no_rain_counter
          /\ rain_ret' = IF w = "rain" THEN s.ret ELSE rain_ret
    /\ UNCHANGED <<last_rain_reset_day, daily_rain_total, rain_file, rain_arg,
                   rain_calls, prev_date, store_result, ex_pos, absent_date>>
    /\ UNCHANGED <<current_gui, toggle_timer, last_key, gui_before, timer_before,
                   armed_interval, after_pending, timer_id, packed>>
    /\ UNCHANGED <<clockVars, fnVars, wdVars, loopVars, writerVars, managerVars,
                   lifeVars>>

\* One iteration of sensor_reader_loop on the worker thread, up to
\* self.sensor_data = current_data: a new dict replaces the published one.
WorkerPublishes ==
    /\ cycle < MaxPublished
    /\ \E connected \in (IF script = "multi"
                         THEN (IF sensors_connected THEN BOOLEAN ELSE {FALSE})
                         ELSE {TRUE}),
          env \in {BusOk(SampleRegisters("environment")), BusError},
          file \in {AqiFileAbsent, AqiFileRow(SampleAqiRow)} :
         LET id == cycle + 1
             res == [n \in Range(Sensors) |->
                        IF n = "environment" THEN env
                        ELSE BusOk(SampleRegisters(n))]
         IN /\ heap' = (id :> worker_snapshot(script, id, connected, res, file))
            /\ origin' = (id :> [k \in DOMAIN heap'[id] |-> id])
            /\ sensor_data' = id
            /\ current_data' = Some(id)
            /\ cycle' = id
            /\ sensors_connected' = (script = "multi" /\ connected)
    /\ UNCHANGED <<script, pc, reader_idx, data_queue, since_csv, socket_open,
                   cycle_outcome, faults, connect_called>>
    /\ UNCHANGED <<clockVars, rainVars, fnVars, wdVars, stationVars, writerVars,
                   restVars>>

PassNext == PassBegin \/ PassStep \/ WorkerPublishes

\* After __init__, before the first refresh and the first snapshot.
PassInit ==
    /\ script \in {"awos", "multi"}
    /\ state_labels = InitialLabels(script)
    /\ refreshed = FALSE
    /\ current_gui = 2
    /\ toggle_timer = TRUE
    /\ update_timer = FALSE
    /\ display_error = FALSE
    /\ last_key = "none"
    /\ gui_before = 1
    /\ timer_before = FALSE
    /\ armed_interval = gui2_toggle_interval
    /\ pc = "top"
    /\ reader_idx = 1
    /\ cycle = 0
    /\ heap = (0 :> InitialSensorData)
    /\ origin = (0 :> [k \in DOMAIN InitialSensorData |-> 0])
    /\ current_data = None
    /\ sensor_data = 0
    /\ data_queue = <<>>
    /\ since_csv = 0
    /\ socket_open = TRUE
    /\ sensors_connected \in (IF script = "multi" THEN BOOLEAN ELSE {FALSE})
    /\ cycle_outcome = <<>>
    /\ faults = 0
    /\ connect_called = FALSE
    /\ csv_dir = <<>>
    /\ last_values = <<>>
    /\ last_update_age = <<>>
    /\ since_write = 0
    /\ writer_pc = "run"
    /\ consumed = <<>>
    /\ row_source = None
    /\ write_result = "none"
    /\ writer_wait = 0
    /\ writer_logged = FALSE
    /\ io_faults = 0
    /\ captured_day = <<>>
    /\ pass_idx = 0
    /\ pass_log = <<>>
    /\ after_pending = {1}
    /\ timer_id = Some(1)
    /\ packed = {2}
    /\ absent_date = None
    /\ running = FALSE
    /\ main_pc = "construct"
    /\ shutdown_pos = 0
    /\ shutdown_trace = <<>>
    /\ bus_calls = {}
    /\ carried = <<>>
    /\ wall_seconds = 0
    /\ time_steps = 0
    /\ toggle_time_start = 0
    /\ current_display = "none"
    /\ apps = <<>>
    /\ checked = FALSE
    /\ no_rain_counter = 0
    /\ today = 0
    /\ clock_steps = 0
    /\ last_rain_reset_day = None
    /\ daily_rain_total = None
    /\ last_rain_value = 0
    /\ rain_file = <<>>
    /\ rain_ret = None
    /\ rain_arg = None
    /\ rain_calls = 0
    /\ prev_date = None
    /\ store_result = "none"
    /\ ex_pos = 0
    /\ fn_program = "awos"
    /\ fn_name = "aqi"
    /\ fn_arg = None
    /\ fn_called = TRUE
    /\ fn_value = None
    /\ fn_state = NotCalled
    /\ wd_program = "awos"
    /\ wd_res = BusError
    /\ wd_called = TRUE
    /\ wd_data = None

\* The display thread and the worker thread, interleaved at each widget.
SpecPass == PassInit /\ [][PassNext]_vars

\* C34: within one display refresh pass all values shown, and the state
\* labels derived from them, are taken from one and the same published
\* snapshot, even when the worker publishes a new one during the pass.
C34_OneSnapshotPerPass ==
    \A i, j \in DOMAIN pass_log : pass_log[i][2] = pass_log[j][2]

----------------------------------------------------------------------------
\* The dated file of a late row (checked under SpecPersist)

\* A row written by multi_awos.py or awos_new.py: where it goes and what its
\* first cell is, given the snapshot at the head of the queue.
C37_Step ==
    (script \in {"multi", "new"} /\ RowWritten) =>
        LET id == Head(data_queue)
            file == csv_dir'[today]
        IN /\ today \in DOMAIN csv_dir'
           /\ file.rows[Len(file.rows)][1] = heap[id].timestamp
           /\ heap[id].timestamp = Some(id)
           /\ Len(file.rows) =
                  (IF today \in DOMAIN csv_dir THEN Len(csv_dir[today].rows) ELSE 0) + 1
           /\ \A n \in DOMAIN csv_dir' \ {today} : csv_dir'[n] = csv_dir[n]

\* C37: in multi_awos.py and awos_new.py the dated file a row goes to is the
\* one of the wall-clock date at the moment the writer dequeues the snapshot,
\* not of the snapshot's capture timestamp: a snapshot captured before midnight
\* and dequeued after it is appended to the new day's file, its own timestamp
\* in the row.
C37_FileOfTheWriteDay == [][C37_Step]_vars

\* The new day's file holds the row of a snapshot captured the day before.
C37_Witness ==
    /\ script \in {"multi", "new"}
    /\ today \in DOMAIN csv_dir
    /\ \E i \in DOMAIN csv_dir[today].rows :
          \E id \in DOMAIN captured_day :
              /\ csv_dir[today].rows[i][1] = Some(id)
              /\ captured_day[id] < today

====
